---- MODULE Spec2Model ----
(***************************************************************************)
(* A model of the velarixdb storage engine: the value log, the active and  *)
(* read-only memtables, the flusher, the SSTables with their sparse index, *)
(* Bloom filters and key-range index, recovery and the range iterator.     *)
(*                                                                         *)
(* Keys and values are byte strings, modelled as sequences of numbers.     *)
(* Value-log offsets are byte offsets, computed from the record encoding.  *)
(* The clock (Utc::now().timestamp_millis()) never runs backwards; two     *)
(* successive reads may return the same millisecond.                       *)
(***************************************************************************)
EXTENDS Integers, Sequences, FiniteSets, TLC

\* ------------------------------------------------------------------ bounds
\* Number of records the value log may hold (bounds the number of writes).
MaxLog == 7
\* Number of SSTables that may be written to disk.
MaxSST == 3
\* Number of background flush tasks that may exist at once.
MaxTasks == 2
\* Number of crashes followed by a reopen.
MaxCrash == 1
\* Greatest prefetch_entries_size of a range iterator.
MaxPrefetch == 2
\* Number of merged SSTables that may be on disk beside MaxSST others.
MaxMerged == 1
\* Number of compaction cycles.
MaxCycles == 1
\* Number of records the value log may hold when memtables are sealed after
\* flush_all_memtables has run.
MaxLateLog == 10
\* Number of background flush tasks that may exist at once when a put seals
\* while tasks of an earlier seal are still running.
MaxLateTasks == 3
\* Number of calls the caller makes while the locks are followed.
MaxCalls == 3

\* --------------------------------------------------------------- constants
SIZE_OF_U32 == 4
SIZE_OF_U64 == 8
SIZE_OF_U8 == 1
\* config.write_buffer_size, counted in memtable entries (each insert is
\* charged one fixed-size unit; every key of the model has the same charge).
WRITE_BUFFER_SIZE == 4
\* Reserved room for the head marker in is_full.
HEAD_ENTRY_CHARGE == 1
\* config.max_buffer_write_number
MAX_BUFFER_WRITE_NUMBER == 2
\* Capacity of the flush-signal broadcast channel.
FLUSH_SIGNAL_CHANNEL_SIZE == 1
\* The number of SSTables from which a bucket is compacted.
BUCKET_THRESHOLD == 2
\* config.prefetch_size and config.allow_prefetch
DEFAULT_PREFETCH_SIZE == 2
DEFAULT_ALLOW_PREFETCH == TRUE

HEAD_ENTRY_KEY == <<104, 101, 97, 100>>
TAIL_ENTRY_KEY == <<116, 97, 105, 108>>
TOMB_STONE_MARKER == <<0, 0, 0, 0>>

\* User keys ("a", "n") and values.
UserKeys == {<<97>>, <<110>>}
Values == {<<1>>, <<2>>}
\* The milliseconds that pass between two successive reads of the clock.
Ticks == {0, 1}

VARIABLES
    now,                  \* the clock: the millisecond read last
    val_log,              \* the value log file: a sequence of records
    vlog_head,            \* ValueLog.head_offset (in memory)
    vlog_tail,            \* ValueLog.tail_offset (in memory)
    active_memtable,      \* DataStore.active_memtable
    read_only_memtables,  \* DataStore.read_only_memtables: IndexMap id -> table
    flusher_shares_map,   \* Flusher.read_only_memtable is the engine's map
    tasks,                \* spawned flush_handler tasks
    flush_data_chan,      \* messages sent on flush_data_sender
    flush_signals,        \* number of FLUSH_SIGNAL broadcasts
    sstables,             \* SSTable files on disk: path id -> table
    buckets,              \* BucketMap: a sequence of buckets of path ids
    filters,              \* the global Bloom filter list
    key_range,            \* KeyRange: path id -> (smallest, biggest)
    next_id,              \* source of table ids and SSTable paths
    engine,               \* "open" | "crashed" | "failed"
    crashes,              \* number of crashes so far
    ret,                  \* the last foreground call and its result
    last_write,           \* per user key: the last accepted put or delete
    range_iterator,       \* the RangeIterator the engine holds
    iter_out,             \* what the iterator's next() calls produced so far
    compaction,           \* the compaction cycle in progress, if any
    call,                 \* a function called on its own: arguments, result
    threads,              \* per thread of control: the lock steps of its operation
    rwlocks               \* per RwLock: its holders and its queue of waiters

vars == <<now, val_log, vlog_head, vlog_tail, active_memtable,
          read_only_memtables, flusher_shares_map, tasks, flush_data_chan,
          flush_signals, sstables, buckets, filters, key_range, next_id,
          engine, crashes, ret, last_write, range_iterator, iter_out,
          compaction, call, threads, rwlocks>>

\* The threads and the locks they take.
lock_vars == <<threads, rwlocks>>

\* The range iterator with the record of its output.
iterator_vars == <<range_iterator, iter_out>>

\* What a caller can observe of the engine's data.
engine_vars == <<val_log, vlog_head, vlog_tail, active_memtable,
                 read_only_memtables, flusher_shares_map, tasks,
                 flush_data_chan, flush_signals, sstables, buckets, filters,
                 key_range, next_id>>

\* ------------------------------------------------------------- byte keys
Min(a, b) == IF a <= b THEN a ELSE b

\* Vec<u8> ordering: byte-lexicographic.
RECURSIVE KeyLess(_, _)
KeyLess(a, b) ==
    IF b = <<>> THEN FALSE
    ELSE IF a = <<>> THEN TRUE
    ELSE IF Head(a) # Head(b) THEN Head(a) < Head(b)
    ELSE KeyLess(Tail(a), Tail(b))

KeyLeq(a, b) == a = b \/ KeyLess(a, b)

\* The keys of a set in ascending order.
RECURSIVE SortKeys(_)
SortKeys(S) ==
    IF S = {} THEN <<>>
    ELSE LET m == CHOOSE x \in S : \A y \in S : KeyLeq(x, y)
         IN <<m>> \o SortKeys(S \ {m})

SeqToSet(s) == {s[i] : i \in 1..Len(s)}

\* ------------------------------------------------------------- value log
RecordSize(r) ==
    SIZE_OF_U32 + SIZE_OF_U32 + SIZE_OF_U64 + SIZE_OF_U8 + Len(r.key) + Len(r.value)

\* The end of the file: where the next record starts.
VlogEnd(log) ==
    IF log = <<>> THEN 0 ELSE log[Len(log)].offset + RecordSize(log[Len(log)])

\* ValueLog::append: returns the start offset of the new record.
VlogAppend(log, key, value, created_at, is_tombstone) ==
    Append(log, [offset |-> VlogEnd(log), key |-> key, value |-> value,
                 created_at |-> created_at, is_tombstone |-> is_tombstone])

\* ValueLog::get: the record that starts at offset, if any.
VlogGet(log, offset) ==
    LET hit == {i \in 1..Len(log) : log[i].offset = offset}
    IN IF hit = {} THEN [found |-> FALSE]
       ELSE LET i == CHOOSE j \in hit : TRUE
            IN [found |-> TRUE, value |-> log[i].value,
                is_tombstone |-> log[i].is_tombstone]

\* ValueLog::recover: every record from from_offset to the end of the file.
VlogRecover(log, from_offset) ==
    SelectSeq(log, LAMBDA r : r.offset >= from_offset)

\* -------------------------------------------------------------- memtable
NewEntry(key, val_offset, created_at, is_tombstone) ==
    [key |-> key, val_offset |-> val_offset, created_at |-> created_at,
     is_tombstone |-> is_tombstone]

\* InMemoryTable::with_specified_capacity_and_rate
EmptyMemtable == [entries |-> <<>>, size |-> 0, read_only |-> FALSE]

MemKeys(m) == DOMAIN m.entries

\* InMemoryTable::insert: the entry replaces the one held for its key.
MemInsert(m, e) ==
    [m EXCEPT !.entries = [k \in (DOMAIN m.entries) \cup {e.key} |->
                              IF k = e.key THEN e ELSE m.entries[k]],
              !.size = m.size + 1]

\* InMemoryTable::is_full
MemIsFull(m) == m.size + HEAD_ENTRY_CHARGE >= WRITE_BUFFER_SIZE

\* InMemoryTable::find_biggest_key / find_smallest_key (callers check for
\* an empty table first).
MemBiggestKey(m) == CHOOSE k \in MemKeys(m) : \A o \in MemKeys(m) : KeyLeq(o, k)
MemSmallestKey(m) == CHOOSE k \in MemKeys(m) : \A o \in MemKeys(m) : KeyLeq(k, o)

\* entries.iter().max_by_key(|e| e.value().0): the greatest val_offset.
MemMaxOffset(m) ==
    CHOOSE o \in {m.entries[k].val_offset : k \in MemKeys(m)} :
        \A k \in MemKeys(m) : m.entries[k].val_offset <= o

\* The sorted entry list written to the data file.
MemSortedEntries(m) ==
    LET ks == SortKeys(MemKeys(m))
    IN [i \in 1..Len(ks) |-> m.entries[ks[i]]]

\* ------------------------------------------------- sparse index, SSTable
\* The sparse index written with a data file: one (key, offset) pair per
\* entry, in key order; the offset is the entry's position in the data file.
SparseIndexOf(entries) ==
    [i \in 1..Len(entries) |-> [key |-> entries[i].key, offset |-> i]]

\* SparseIndex::get: scans the index file in order; block_offset starts at
\* -1 (none) and follows the entries whose key is smaller than the searched one.
RECURSIVE SparseIndexScan(_, _, _, _)
SparseIndexScan(index, i, searched_key, block_offset) ==
    IF i > Len(index)
    THEN IF block_offset = -1 THEN [found |-> FALSE]
         ELSE [found |-> TRUE, offset |-> block_offset]
    ELSE IF KeyLess(index[i].key, searched_key)
    THEN SparseIndexScan(index, i + 1, searched_key, index[i].offset)
    ELSE IF index[i].key = searched_key
    THEN [found |-> TRUE, offset |-> index[i].offset]
    ELSE IF block_offset = -1 THEN [found |-> FALSE]
         ELSE [found |-> TRUE, offset |-> block_offset]

\* A lookup that answers only for a key the index holds.
SparseIndexGetExactOnly(index, searched_key) ==
    LET hit == {i \in 1..Len(index) : index[i].key = searched_key}
    IN IF hit = {} THEN [found |-> FALSE]
       ELSE [found |-> TRUE, offset |-> index[CHOOSE i \in hit : TRUE].offset]

SparseIndexGet(index, searched_key) == SparseIndexScan(index, 1, searched_key, -1)

\* SparseIndex::get_offset_range: one scan of the index file; an entry whose
\* key is not greater than start_key sets start_offset, one whose key is
\* greater sets end_offset, and the scan returns at the first key greater
\* than end_key or at the end of the file.
RECURSIVE OffsetRangeScan(_, _, _, _, _)
OffsetRangeScan(index, i, start_key, end_key, range_offset) ==
    IF i > Len(index) THEN range_offset
    ELSE IF KeyLess(start_key, index[i].key)
    THEN IF KeyLess(end_key, index[i].key)
         THEN [range_offset EXCEPT !.end_offset = index[i].offset]
         ELSE OffsetRangeScan(index, i + 1, start_key, end_key,
                  [range_offset EXCEPT !.end_offset = index[i].offset])
    ELSE OffsetRangeScan(index, i + 1, start_key, end_key,
             [range_offset EXCEPT !.start_offset = index[i].offset])

GetOffsetRange(index, start_key, end_key) ==
    OffsetRangeScan(index, 1, start_key, end_key,
                    [start_offset |-> 0, end_offset |-> 0])

\* Table::get(block_offset, key): reads the data file from block_offset on
\* until an entry whose key is not smaller than key; that entry if it matches.
RECURSIVE TableScan(_, _, _)
TableScan(entries, i, key) ==
    IF i > Len(entries) THEN [found |-> FALSE]
    ELSE IF KeyLess(entries[i].key, key) THEN TableScan(entries, i + 1, key)
    ELSE IF entries[i].key = key THEN [found |-> TRUE, entry |-> entries[i]]
    ELSE [found |-> FALSE]

TableGet(table, block_offset, key) == TableScan(table.entries, block_offset, key)

\* The lookup get makes in one SSTable: sparse index, then data file.
SSTableLookup(table, key) ==
    LET b == SparseIndexGet(SparseIndexOf(table.entries), key)
    IN IF b.found THEN TableGet(table, b.offset, key) ELSE [found |-> FALSE]

\* ---------------------------------------------------- filters, key range
\* BloomFilter::contains: no false negative; fp is the set of SSTables whose
\* filter answers a false positive for the probed key.
BloomContains(f, key, fp) == key \in f.keys \/ f.sst \in fp

\* KeyRange::filter_sstables_by_biggest_key: the SSTables whose biggest key
\* is not smaller than key.
FilterSSTablesByBiggestKey(kr, key) ==
    {p \in DOMAIN kr : KeyLeq(key, kr[p].biggest)}

\* BloomFilter::bloom_filters_within_key_range: the filters of those SSTables.
BloomFiltersWithinKeyRange(fs, paths) ==
    SelectSeq(fs, LAMBDA f : f.sst \in paths)

\* BloomFilter::sstables_within_key_range: the SSTables of the filters that
\* contain key.
SSTablesWithinKeyRange(fs, key, fp) ==
    LET hit == SelectSeq(fs, LAMBDA f : BloomContains(f, key, fp))
    IN [i \in 1..Len(hit) |-> hit[i].sst]

\* ------------------------------------------------------------------- get
Err(kind) == [ok |-> FALSE, err |-> kind]
Ok(value, created_at) == [ok |-> TRUE, value |-> value, created_at |-> created_at]

NoHit == [offset |-> 0, time |-> 0, deleted |-> FALSE]

\* One round of the freshness loop: a strictly greater created_at wins.
Fresher(acc, e) ==
    IF e.created_at > acc.time
    THEN [offset |-> e.val_offset, time |-> e.created_at, deleted |-> e.is_tombstone]
    ELSE acc

\* Step 2 of get: the read-only memtables, in the map's order.
RECURSIVE ScanReadOnly(_, _, _, _)
ScanReadOnly(ro, i, key, acc) ==
    IF i > Len(ro) THEN acc
    ELSE ScanReadOnly(ro, i + 1, key,
             IF key \in MemKeys(ro[i].table)
             THEN Fresher(acc, ro[i].table.entries[key]) ELSE acc)

\* Step 3 of get: the candidate SSTables, in the filters' order.
RECURSIVE ScanSSTables(_, _, _, _, _)
ScanSSTables(ssts, paths, i, key, acc) ==
    IF i > Len(paths) THEN acc
    ELSE LET r == IF paths[i] \in DOMAIN ssts
                  THEN SSTableLookup(ssts[paths[i]], key)
                  ELSE [found |-> FALSE]
         IN ScanSSTables(ssts, paths, i + 1, key,
                IF r.found THEN Fresher(acc, r.entry) ELSE acc)

\* Step 5 of get: the value is read from the value log.
ReadValue(log, acc) ==
    LET v == VlogGet(log, acc.offset)
    IN IF ~v.found THEN Err("KeyNotFoundInValueLogError")
       ELSE IF v.is_tombstone THEN Err("KeyFoundAsTombstoneInValueLogError")
       ELSE Ok(v.value, acc.time)

\* A get without the early returns of step 3: every miss falls through to
\* the last line.
NoEarlyReturn(in_range, in_filters, paths) == ""

\* The early returns of step 3: no SSTable left by the key-range index, no
\* filter for those left, no filter that holds the key ("" is no return).
NoCandidateError(in_range, in_filters, paths) ==
    IF in_range = {} THEN "KeyNotFoundInAnySSTableError"
    ELSE IF in_filters = <<>> THEN "KeyNotFoundByAnyBloomFilterError"
    ELSE IF paths = <<>> THEN "KeyNotFoundInAnySSTableError"
    ELSE ""

\* DataStore::get on a given engine state.
GetIn(log, active, ro, ssts, fs, kr, key, fp) ==
    IF key \in MemKeys(active)
    THEN IF active.entries[key].is_tombstone
         THEN Err("KeyFoundAsTombstoneInMemtableError")
         ELSE ReadValue(log, Fresher(NoHit, active.entries[key]))
    ELSE LET m == ScanReadOnly(ro, 1, key, NoHit)
         IN IF m.time > 0 /\ m.deleted
            THEN Err("KeyFoundAsTombstoneInMemtableError")
            ELSE IF m.time > 0 THEN ReadValue(log, m)
            ELSE LET in_range == FilterSSTablesByBiggestKey(kr, key)
                     in_filters == BloomFiltersWithinKeyRange(fs, in_range)
                     paths == SSTablesWithinKeyRange(in_filters, key, fp)
                     s == ScanSSTables(ssts, paths, 1, key, NoHit)
                 IN IF NoCandidateError(in_range, in_filters, paths) # ""
                    THEN Err(NoCandidateError(in_range, in_filters, paths))
                    ELSE IF s.time > 0 /\ s.deleted
                    THEN Err("KeyFoundAsTombstoneInSSTableError")
                    ELSE IF s.time > 0 THEN ReadValue(log, s)
                    ELSE Err("NotFoundInDB")

\* get(key) on the current state; fp as in BloomContains.
Get(key, fp) ==
    GetIn(val_log, active_memtable, read_only_memtables, sstables, filters,
          key_range, key, fp)

\* get(key) when no Bloom filter answers a false positive.
GetExact(key) == Get(key, {})

\* ------------------------------------------------------------ bucket map
SSTableSize(table) == Len(table.entries)

RECURSIVE SumSizes(_, _)
SumSizes(ssts, ids) ==
    IF ids = <<>> THEN 0
    ELSE SSTableSize(ssts[Head(ids)]) + SumSizes(ssts, Tail(ids))

\* The SSTables of a bucket whose files are on disk.
BucketFiles(ssts, bucket) == SelectSeq(bucket, LAMBDA p : p \in DOMAIN ssts)

BucketAverage(ssts, bucket) ==
    SumSizes(ssts, BucketFiles(ssts, bucket)) \div Len(BucketFiles(ssts, bucket))

\* The size-tier band: [0.5 * average, 1.5 * average].
FitsBucket(ssts, bucket, size) ==
    /\ BucketFiles(ssts, bucket) # <<>>
    /\ 2 * size >= BucketAverage(ssts, bucket)
    /\ 2 * size <= 3 * BucketAverage(ssts, bucket)

\* BucketMap::insert_to_appropriate_bucket: the first bucket whose band
\* holds the table's size, or a new bucket.
InsertToAppropriateBucket(bks, ssts, id, size) ==
    LET fit == {i \in 1..Len(bks) : FitsBucket(ssts, bks[i], size)}
    IN IF fit = {} THEN Append(bks, <<id>>)
       ELSE LET i == CHOOSE j \in fit : \A o \in fit : j <= o
            IN [bks EXCEPT ![i] = Append(bks[i], id)]

\* A sealed or active memtable written as an SSTable.
TableOfMemtable(m, hotness) ==
    [entries |-> MemSortedEntries(m), hotness |-> hotness]

\* The memtable's Bloom filter, bound to the SSTable path.
FilterOfMemtable(m, path, hotness) ==
    [keys |-> MemKeys(m), sst |-> path, hotness |-> hotness]

\* sort_by(|a, b| b.hotness.cmp(a.hotness)): stable, hottest first.
RECURSIVE SortByHotness(_)
SortByHotness(fs) ==
    IF fs = <<>> THEN <<>>
    ELSE LET top == CHOOSE h \in {fs[i].hotness : i \in 1..Len(fs)} :
                        \A i \in 1..Len(fs) : fs[i].hotness <= h
         IN SelectSeq(fs, LAMBDA f : f.hotness = top)
            \o SortByHotness(SelectSeq(fs, LAMBDA f : f.hotness # top))

RemoveAt(s, i) == SubSeq(s, 1, i - 1) \o SubSeq(s, i + 1, Len(s))

\* IndexMap::shift_remove(table_id)
ShiftRemove(ro, table_id) == SelectSeq(ro, LAMBDA e : e.id # table_id)

\* -------------------------------------------------------- range iterator
\* RangeIterator::new (start and end are kept by the iterator but never
\* read by next, and are left out).
NewRangeIterator(allow_prefetch, prefetch_entries_size, keys) ==
    [current |-> 0, allow_prefetch |-> allow_prefetch,
     prefetch_entries_size |-> prefetch_entries_size,
     prefetch_entries |-> <<>>, keys |-> keys]

\* RangeIterator::default
DefaultIterator ==
    NewRangeIterator(DEFAULT_ALLOW_PREFETCH, DEFAULT_PREFETCH_SIZE, <<>>)

\* Nothing was asked of the iterator yet.
NoOutput == [yielded |-> <<>>, ended |-> FALSE, panicked |-> FALSE]

\* The slice of keys prefetch_entries hands to the fetch.
PrefetchSlice(it) ==
    IF it.current + it.prefetch_entries_size <= Len(it.keys)
    THEN SubSeq(it.keys, it.current + 1, it.current + it.prefetch_entries_size)
    ELSE SubSeq(it.keys, it.current + 1, Len(it.keys))

\* entries_map of fetch_entries_in_parralel: the value of every key of the
\* slice whose record is found and is not deleted (a later entry of the
\* slice replaces an earlier one for the same key).
RECURSIVE EntriesMap(_, _, _)
EntriesMap(log, keys, map) ==
    IF keys = <<>> THEN map
    ELSE LET e == Head(keys)
             v == VlogGet(log, e.val_offset)
         IN EntriesMap(log, Tail(keys),
                IF v.found /\ ~v.is_tombstone
                THEN [k \in (DOMAIN map) \cup {e.key} |->
                         IF k = e.key THEN v.value ELSE map[k]]
                ELSE map)

\* RangeIterator::fetch_entries_in_parralel: the map in key order.
FetchEntriesInParallel(log, keys) ==
    LET map == EntriesMap(log, keys, <<>>)
        ks == SortKeys(DOMAIN map)
    IN [i \in 1..Len(ks) |-> [key |-> ks[i], val |-> map[ks[i]]]]

\* RangeIterator::prefetch_entries: the fetched entries are appended.
PrefetchEntries(log, it) ==
    [it EXCEPT !.prefetch_entries =
         it.prefetch_entries \o FetchEntriesInParallel(log, PrefetchSlice(it))]

\* RangeIterator::current_is_at_end_prefetched_keys / current_is_at_last_key
CurrentIsAtEndPrefetchedKeys(it) == it.current >= Len(it.prefetch_entries)
CurrentIsAtLastKey(it) == it.current >= Len(it.keys)

\* ----------------------------------------------------------------- locks
\* The threads of control: the caller of the engine (get, seek and put
\* borrow the engine, so one call runs at a time) and the flush_handler
\* task of each sealed memtable.
FlushThreads == {"flush1", "flush2"}
Threads == {"caller"} \cup FlushThreads

\* The tokio RwLocks: the read-only memtable map, the bucket map, the
\* key-range index, the Bloom filter list and each sealed memtable.
TableLocks == {"table1", "table2"}
LockNames == {"read_only_memtables", "bucket_map", "key_range", "filters"}
                 \cup TableLocks

\* The sealed memtable a flush task was spawned for.
TableOfThread(t) == IF t = "flush1" THEN "table1" ELSE "table2"

\* The steps of an operation that matter to the locks: lock.read().await or
\* lock.write().await, the drop of a guard, and put's spawn of the tasks.
Acquire(lock, mode) == [do |-> "acquire", lock |-> lock, mode |-> mode]
Release(lock) == [do |-> "release", lock |-> lock, mode |-> "none"]
SpawnTasks == [do |-> "spawn", lock |-> "none", mode |-> "none"]

\* flush_handler: Flusher::flush holds the table's read guard and the
\* bucket map's write guard to its end (insert_to_appropriate_bucket reads
\* the table it is given); the key-range and filter guards are temporaries;
\* after Ok the read-only map is locked for shift_remove.
FlushProgram(table) ==
    <<Acquire(table, "read"),
      Acquire("bucket_map", "write"),
      Acquire(table, "read"), Release(table),
      Acquire("key_range", "write"), Release("key_range"),
      Acquire("filters", "write"), Release("filters"),
      Acquire("filters", "write"), Release("filters"),
      Release("bucket_map"),
      Release(table),
      Acquire("read_only_memtables", "write"), Release("read_only_memtables")>>

\* DataStore::get on a key the active memtable does not hold: the map's
\* read guard lives through the loop over the sealed memtables; then the
\* key-range guard is held while the filter list is read.
GetProgram ==
    <<Acquire("read_only_memtables", "read"),
      Acquire("table1", "read"), Release("table1"),
      Acquire("table2", "read"), Release("table2"),
      Release("read_only_memtables"),
      Acquire("key_range", "read"),
      Acquire("filters", "read"),
      Release("filters"),
      Release("key_range")>>

\* RangeIterator::seek: the map is read twice (is_empty, clone), each
\* sealed memtable once, then the filter list, then the key range.
SeekProgram ==
    <<Acquire("read_only_memtables", "read"), Release("read_only_memtables"),
      Acquire("read_only_memtables", "read"), Release("read_only_memtables"),
      Acquire("table1", "read"), Release("table1"),
      Acquire("table2", "read"), Release("table2"),
      Acquire("filters", "read"), Release("filters"),
      Acquire("key_range", "read"), Release("key_range")>>

\* A put that keeps the read guard of its if condition while it takes the
\* guard it iterates with.
PutKeepsConditionGuard ==
    <<Acquire("read_only_memtables", "write"), Release("read_only_memtables"),
      Acquire("read_only_memtables", "read"),
      Acquire("read_only_memtables", "read"),
      SpawnTasks,
      Release("read_only_memtables"),
      Release("read_only_memtables")>>

\* DataStore::put when it seals: the map is write-locked for the insert,
\* read-locked for len() in the if condition (the guard is dropped with the
\* condition), and read-locked again while the tasks are spawned.
PutProgram ==
    <<Acquire("read_only_memtables", "write"), Release("read_only_memtables"),
      Acquire("read_only_memtables", "read"), Release("read_only_memtables"),
      Acquire("read_only_memtables", "read"),
      SpawnTasks,
      Release("read_only_memtables")>>

\* A thread with no operation under way, and a lock nobody holds or awaits.
IdleThread == [prog |-> <<>>, pc |-> 1, waiting |-> FALSE, started |-> 0]
FreeLock == [readers |-> [t \in Threads |-> 0], writer |-> "none", queue |-> <<>>]

\* The thread is inside an operation.
Running(t) == threads[t].pc <= Len(threads[t].prog)

\* The step the thread is at.
Instr(t) == threads[t].prog[threads[t].pc]

\* ------------------------------------------------------------------ Init
InitLog ==
    VlogAppend(VlogAppend(<<>>, TAIL_ENTRY_KEY, <<>>, 1, FALSE),
               HEAD_ENTRY_KEY, <<>>, 1, FALSE)

\* DataStore::with_capacity_and_rate on an empty value log.
InitMemtable ==
    MemInsert(MemInsert(EmptyMemtable,
                        NewEntry(TAIL_ENTRY_KEY, InitLog[1].offset, 1, FALSE)),
              NewEntry(HEAD_ENTRY_KEY, InitLog[2].offset, 1, FALSE))

NoWrite == [op |-> "none", value |-> <<>>, created_at |-> 0]

\* No compaction cycle is running.
NoCompaction == [pc |-> "idle", to_remove |-> {}, input_keys |-> {}, cycles |-> 0]

\* No function was called on its own.
NoCall == [fn |-> "none", args |-> <<>>]

\* The engine DataStore::with_capacity_and_rate builds on an empty
\* directory, for a given value-log file and range iterator.
InitEngine(log, it) ==
    /\ now = 1
    /\ val_log = log
    /\ vlog_head = InitLog[2].offset
    /\ vlog_tail = InitLog[1].offset
    /\ active_memtable = InitMemtable
    /\ read_only_memtables = <<>>
    /\ flusher_shares_map = TRUE
    /\ tasks = <<>>
    /\ flush_data_chan = <<>>
    /\ flush_signals = 0
    /\ sstables = <<>>
    /\ buckets = <<>>
    /\ filters = <<>>
    /\ key_range = <<>>
    /\ next_id = 1
    /\ engine = "open"
    /\ crashes = 0
    /\ ret = [op |-> "open", key |-> <<>>, res |-> [ok |-> TRUE], after |-> "none",
             in_flight |-> 0]
    /\ last_write = [k \in UserKeys |-> NoWrite]
    /\ range_iterator = it
    /\ iter_out = NoOutput
    /\ compaction = NoCompaction
    /\ threads = [t \in Threads |-> IdleThread]
    /\ rwlocks = [l \in LockNames |-> FreeLock]

\* The engine after construction; no function is called on its own.
InitWith(log, it) ==
    /\ InitEngine(log, it)
    /\ call = NoCall

Init == InitWith(InitLog, DefaultIterator)

\* ------------------------------------------------------------------- put

\* A put that hands only the memtable it has just sealed to the flusher.
SpawnNewestOnly(ro) ==
    <<[table_id |-> ro[Len(ro)].id, table |-> ro[Len(ro)].table, pc |-> "flush"]>>

\* The flush_handler tasks put spawns: one per table of the read-only map.
SpawnFlushTasks(ro) ==
    [i \in 1..Len(ro) |-> [table_id |-> ro[i].id, table |-> ro[i].table, pc |-> "flush"]]

\* A put or delete that keeps writing into the memtable it has sealed.
KeepActiveMemtable(m) == m

\* The active memtable after a seal: a new table with the capacity, size
\* unit and false positive rate of the sealed one, and no entry.
NewActiveMemtable(m) == EmptyMemtable

\* The head marker put inserts before it seals the active memtable.
PutHeadEntry(m, created_at) ==
    NewEntry(HEAD_ENTRY_KEY, MemMaxOffset(m), created_at, FALSE)

\* DataStore::put when the value-log append succeeds, on a value log that
\* may hold max_log records and with at most max_tasks flush tasks at once.
PutWithin(max_log, max_tasks, key, value, t1, t2) ==
    /\ engine = "open"
    /\ Len(val_log) < max_log
    /\ LET created_at == now + t1
           v_offset == VlogEnd(val_log)
           entry == NewEntry(key, v_offset, created_at, FALSE)
           sealed == [MemInsert(active_memtable,
                                PutHeadEntry(active_memtable, created_at + t2))
                      EXCEPT !.read_only = TRUE]
           ro == Append(read_only_memtables, [id |-> next_id, table |-> sealed])
       IN /\ val_log' = VlogAppend(val_log, key, value, created_at, FALSE)
          /\ IF MemIsFull(active_memtable)
             THEN /\ vlog_head' = MemMaxOffset(active_memtable)
                  /\ read_only_memtables' = ro
                  /\ next_id' = next_id + 1
                  /\ IF Len(ro) >= MAX_BUFFER_WRITE_NUMBER
                     THEN /\ Len(tasks) + Len(ro) <= max_tasks
                          /\ tasks' = tasks \o SpawnFlushTasks(ro)
                     ELSE tasks' = tasks
                  /\ active_memtable' = MemInsert(NewActiveMemtable(active_memtable), entry)
                  /\ now' = created_at + t2
             ELSE /\ active_memtable' = MemInsert(active_memtable, entry)
                  /\ now' = created_at
                  /\ UNCHANGED <<vlog_head, read_only_memtables, next_id, tasks>>
          /\ last_write' = [last_write EXCEPT ![key] =
                 [op |-> "put", value |-> value, created_at |-> created_at]]
    /\ ret' = [op |-> "put", key |-> key, res |-> [ok |-> TRUE]]
    /\ UNCHANGED <<vlog_tail, flusher_shares_map, flush_data_chan, flush_signals,
                   sstables, buckets, filters, key_range, engine, crashes>>
    /\ UNCHANGED <<iterator_vars, compaction, call, lock_vars>>

\* DataStore::put on a value log of at most MaxLog records.
Put(key, value, t1, t2) == PutWithin(MaxLog, MaxTasks, key, value, t1, t2)

\* A put that inserts the entry into the active memtable before it looks
\* at the result of the append.
PutInsertsBeforeAppendResult(key, value) ==
    /\ engine = "open"
    /\ active_memtable' =
           MemInsert(active_memtable, NewEntry(key, VlogEnd(val_log), now, FALSE))
    /\ ret' = [op |-> "put", key |-> key, res |-> Err("IoError")]
    /\ UNCHANGED <<now, val_log, vlog_head, vlog_tail, read_only_memtables,
                   flusher_shares_map, tasks, flush_data_chan, flush_signals,
                   sstables, buckets, filters, key_range, next_id, engine,
                   crashes, last_write>>
    /\ UNCHANGED <<iterator_vars, compaction, call, lock_vars>>

\* DataStore::put when the value-log append fails: the error is returned
\* by the ? operator before anything else runs.
PutAppendFails(key, value) ==
    /\ engine = "open"
    /\ ret' = [op |-> "put", key |-> key, res |-> Err("IoError")]
    /\ UNCHANGED <<now, engine_vars, engine, crashes, last_write>>
    /\ UNCHANGED <<iterator_vars, compaction, call, lock_vars>>

\* ---------------------------------------------------------------- delete
\* The head marker delete inserts before it seals the active memtable.
DeleteHeadEntry(m, created_at) ==
    NewEntry(HEAD_ENTRY_KEY, MemMaxOffset(m), created_at, TRUE)

\* The messages delete's spawned tasks send on flush_data_sender.
SendFlushData(ro) == [i \in 1..Len(ro) |-> ro[i].id]

\* A delete that appends the tombstone record before it looks at the
\* result of get.
DeleteAppendsBeforeGetResult(key, fp) ==
    /\ engine = "open"
    /\ Len(val_log) < MaxLog
    /\ ~Get(key, fp).ok
    /\ val_log' = VlogAppend(val_log, key, TOMB_STONE_MARKER, now, TRUE)
    /\ ret' = [op |-> "delete", key |-> key, res |-> Get(key, fp)]
    /\ UNCHANGED <<now, vlog_head, vlog_tail, active_memtable, read_only_memtables,
                   flusher_shares_map, tasks, flush_data_chan, flush_signals,
                   sstables, buckets, filters, key_range, next_id, engine,
                   crashes, last_write>>
    /\ UNCHANGED <<iterator_vars, compaction, call, lock_vars>>

\* DataStore::delete when get(key) fails: the error is returned at once.
DeleteRejected(key, fp) ==
    /\ engine = "open"
    /\ ~Get(key, fp).ok
    /\ ret' = [op |-> "delete", key |-> key, res |-> Get(key, fp)]
    /\ UNCHANGED <<now, engine_vars, engine, crashes, last_write>>
    /\ UNCHANGED <<iterator_vars, compaction, call, lock_vars>>

\* DataStore::delete when get(key) finds a value.
Delete(key, t1, t2) ==
    /\ engine = "open"
    /\ Len(val_log) < MaxLog
    /\ GetExact(key).ok
    /\ LET created_at == now + t1
           v_offset == VlogEnd(val_log)
           entry == NewEntry(key, v_offset, created_at, TRUE)
           sealed == [MemInsert(active_memtable,
                                DeleteHeadEntry(active_memtable, created_at + t2))
                      EXCEPT !.read_only = TRUE]
           ro == Append(read_only_memtables, [id |-> next_id, table |-> sealed])
       IN /\ val_log' = VlogAppend(val_log, key, TOMB_STONE_MARKER, created_at, TRUE)
          /\ IF MemIsFull(active_memtable)
             THEN /\ read_only_memtables' = ro
                  /\ next_id' = next_id + 1
                  /\ flush_data_chan' =
                         IF Len(ro) >= MAX_BUFFER_WRITE_NUMBER
                         THEN flush_data_chan \o SendFlushData(ro)
                         ELSE flush_data_chan
                  /\ active_memtable' = MemInsert(NewActiveMemtable(active_memtable), entry)
                  /\ now' = created_at + t2
             ELSE /\ active_memtable' = MemInsert(active_memtable, entry)
                  /\ now' = created_at
                  /\ UNCHANGED <<read_only_memtables, next_id, flush_data_chan>>
          /\ last_write' = [last_write EXCEPT ![key] =
                 [op |-> "delete", value |-> <<>>, created_at |-> created_at]]
    /\ ret' = [op |-> "delete", key |-> key, res |-> [ok |-> TRUE]]
    /\ UNCHANGED <<vlog_head, vlog_tail, flusher_shares_map, tasks, flush_signals,
                   sstables, buckets, filters, key_range, engine, crashes>>
    /\ UNCHANGED <<iterator_vars, compaction, call, lock_vars>>

\* --------------------------------------------------------------- flusher
\* The on-disk and index state a flush writes to.
DiskState ==
    [ssts |-> sstables, bks |-> buckets, fs |-> filters, kr |-> key_range,
     id |-> next_id]

\* DataStore::flush_memtable: the table is written into a bucket as a new
\* SSTable, its Bloom filter is pushed, its key range is set.
FlushMemtable(st, m, hotness) ==
    [ssts |-> [p \in (DOMAIN st.ssts) \cup {st.id} |->
                  IF p = st.id THEN TableOfMemtable(m, hotness) ELSE st.ssts[p]],
     bks |-> InsertToAppropriateBucket(st.bks, st.ssts, st.id,
                                       Cardinality(MemKeys(m))),
     fs |-> Append(st.fs, FilterOfMemtable(m, st.id, hotness)),
     kr |-> [p \in (DOMAIN st.kr) \cup {st.id} |->
                IF p = st.id
                THEN [smallest |-> MemSmallestKey(m), biggest |-> MemBiggestKey(m)]
                ELSE st.kr[p]],
     id |-> st.id + 1]

\* Flusher::flush on a non-empty table: bucket insert, key range, filter
\* push, then the filter list is sorted by hotness.
FlusherFlush(st, m) ==
    LET w == FlushMemtable(st, m, 1)
    IN [w EXCEPT !.fs = SortByHotness(w.fs)]

\* The state a flush leaves becomes the engine's.
WriteDisk(st) ==
    /\ sstables' = st.ssts
    /\ buckets' = st.bks
    /\ filters' = st.fs
    /\ key_range' = st.kr
    /\ next_id' = st.id

\* flush_handler, first half: flusher.flush(table_to_flush) returns Ok.
FlushWrite(i) ==
    /\ engine = "open"
    /\ i \in 1..Len(tasks)
    /\ tasks[i].pc = "flush"
    /\ MemKeys(tasks[i].table) # {}
    /\ Cardinality(DOMAIN sstables) < MaxSST
    /\ WriteDisk(FlusherFlush(DiskState, tasks[i].table))
    /\ tasks' = [tasks EXCEPT ![i].pc = "remove"]
    /\ ret' = [op |-> "flush_task", key |-> <<>>, res |-> [ok |-> TRUE]]
    /\ UNCHANGED <<now, val_log, vlog_head, vlog_tail, active_memtable,
                   read_only_memtables, flusher_shares_map, flush_data_chan,
                   flush_signals, engine, crashes, last_write>>
    /\ UNCHANGED <<iterator_vars, compaction, call, lock_vars>>

\* flush_handler when flush returns an error (an empty table, or
\* insert_to_appropriate_bucket fails): the error is printed, the task ends.
FlushFails(i) ==
    /\ engine = "open"
    /\ i \in 1..Len(tasks)
    /\ tasks[i].pc = "flush"
    /\ tasks' = RemoveAt(tasks, i)
    /\ ret' = [op |-> "flush_task", key |-> <<>>, res |-> Err("FailedToInsertToBucket")]
    /\ UNCHANGED <<now, val_log, vlog_head, vlog_tail, active_memtable,
                   read_only_memtables, flusher_shares_map, flush_data_chan,
                   flush_signals, sstables, buckets, filters, key_range, next_id,
                   engine, crashes, last_write>>
    /\ UNCHANGED <<iterator_vars, compaction, call, lock_vars>>

\* A flush_handler that broadcasts the flush signal and leaves the table in
\* the read-only map.
FlushSignalOnly(i) ==
    /\ engine = "open"
    /\ i \in 1..Len(tasks)
    /\ tasks[i].pc = "remove"
    /\ flush_signals' = Min(flush_signals + 1, FLUSH_SIGNAL_CHANNEL_SIZE)
    /\ tasks' = RemoveAt(tasks, i)
    /\ ret' = [op |-> "flush_task", key |-> <<>>, res |-> [ok |-> TRUE]]
    /\ UNCHANGED <<now, val_log, vlog_head, vlog_tail, active_memtable,
                   read_only_memtables, flusher_shares_map, flush_data_chan,
                   sstables, buckets, filters, key_range, next_id, engine,
                   crashes, last_write>>
    /\ UNCHANGED <<iterator_vars, compaction, call, lock_vars>>

\* flush_handler, second half: the table is removed from the map the
\* flusher holds, and the flush signal is broadcast if the channel has room.
FlushRemove(i) ==
    /\ engine = "open"
    /\ i \in 1..Len(tasks)
    /\ tasks[i].pc = "remove"
    /\ read_only_memtables' =
           IF flusher_shares_map
           THEN ShiftRemove(read_only_memtables, tasks[i].table_id)
           ELSE read_only_memtables
    /\ flush_signals' = Min(flush_signals + 1, FLUSH_SIGNAL_CHANNEL_SIZE)
    /\ tasks' = RemoveAt(tasks, i)
    /\ ret' = [op |-> "flush_task", key |-> <<>>, res |-> [ok |-> TRUE]]
    /\ UNCHANGED <<now, val_log, vlog_head, vlog_tail, active_memtable,
                   flusher_shares_map, flush_data_chan, sstables, buckets, filters,
                   key_range, next_id, engine, crashes, last_write>>
    /\ UNCHANGED <<iterator_vars, compaction, call, lock_vars>>

\* ------------------------------------------------------ flush_all_memtables
\* A loop that flushes none of the read-only memtables.
FlushNoReadOnly(st, ro, i) == st

\* The loop over the read-only memtables, in the map's order.
RECURSIVE FlushReadOnly(_, _, _)
FlushReadOnly(st, ro, i) ==
    IF i > Len(ro) THEN st
    ELSE FlushReadOnly(FlushMemtable(st, ro[i].table, 1), ro, i + 1)

\* DataStore::flush_all_memtables: the active memtable, then every
\* read-only memtable; the filters are sorted; the active memtable is
\* cleared and the engine takes a new, empty read-only map (the flusher
\* keeps the map it was built with).
FlushAll ==
    /\ engine = "open"
    /\ MemKeys(active_memtable) # {}
    /\ Cardinality(DOMAIN sstables) + 1 + Len(read_only_memtables) <= MaxSST
    /\ LET st == FlushReadOnly(FlushMemtable(DiskState, active_memtable, 1),
                               read_only_memtables, 1)
       IN WriteDisk([st EXCEPT !.fs = SortByHotness(st.fs)])
    /\ active_memtable' = EmptyMemtable
    /\ read_only_memtables' = <<>>
    /\ flusher_shares_map' = FALSE
    /\ ret' = [op |-> "flush_all", key |-> <<>>, res |-> [ok |-> TRUE],
               flushed |-> 1 + Len(read_only_memtables)]
    /\ UNCHANGED <<now, val_log, vlog_head, vlog_tail, tasks, flush_data_chan,
                   flush_signals, engine, crashes, last_write>>
    /\ UNCHANGED <<iterator_vars, compaction, call, lock_vars>>

\* flush_all_memtables when flush_memtable fails for the table at position
\* j (0 is the active memtable, then the read-only memtables in order):
\* the ? operator returns the error; the tables before j were written, the
\* filters are not sorted, no memtable is cleared.
FlushAllFails(j) ==
    /\ engine = "open"
    /\ MemKeys(active_memtable) # {}
    /\ j \in 0..Len(read_only_memtables)
    /\ Cardinality(DOMAIN sstables) + j <= MaxSST
    /\ WriteDisk(IF j = 0 THEN DiskState
                 ELSE FlushReadOnly(FlushMemtable(DiskState, active_memtable, 1),
                                    SubSeq(read_only_memtables, 1, j - 1), 1))
    /\ ret' = [op |-> "flush_all", key |-> <<>>, res |-> Err("FailedToInsertToBucket"),
               flushed |-> j]
    /\ UNCHANGED <<now, val_log, vlog_head, vlog_tail, active_memtable,
                   read_only_memtables, flusher_shares_map, tasks, flush_data_chan,
                   flush_signals, engine, crashes, last_write>>
    /\ UNCHANGED <<iterator_vars, compaction, call, lock_vars>>

\* flush_all_memtables on an empty active memtable: the first flush is
\* rejected and the error returned.
FlushAllEmpty ==
    /\ engine = "open"
    /\ MemKeys(active_memtable) = {}
    /\ ret' = [op |-> "flush_all", key |-> <<>>, res |-> Err("FailedToInsertToBucket")]
    /\ UNCHANGED <<now, engine_vars, engine, crashes, last_write>>
    /\ UNCHANGED <<iterator_vars, compaction, call, lock_vars>>

\* Flusher::flush called with an empty table: it is turned down before the
\* bucket map is locked, with the error FailedToInsertToBucket("Cannot flush
\* an empty table").
FlushEmpty ==
    /\ engine = "open"
    /\ ret' = [op |-> "flush", key |-> <<>>, res |-> Err("FailedToInsertToBucket"),
               table |-> EmptyMemtable]
    /\ UNCHANGED <<now, engine_vars, engine, crashes, last_write>>
    /\ UNCHANGED <<iterator_vars, compaction, call, lock_vars>>

\* ------------------------------------------------------------- compaction
\* BucketMap::extract_buckets_to_compact: the buckets that hold at least
\* BUCKET_THRESHOLD SSTables, in the map's order.
BucketsToCompact(bks) ==
    SelectSeq([i \in 1..Len(bks) |-> i], LAMBDA i : Len(bks[i]) >= BUCKET_THRESHOLD)

\* The SSTable files the cycle has to remove: those of the buckets to compact.
SSTablesFilesToRemove(bks) ==
    UNION {SeqToSet(bks[i]) : i \in SeqToSet(BucketsToCompact(bks))}

\* A merge that indexed index2 past its end.
MergePanic == [panic |-> TRUE, entries |-> <<>>]

\* The loop of Compactor::merge_sstables over index1[i..] and index2[j..]:
\* the keys are compared by their first byte, and the branch for equal keys
\* reads index2 at i, not at j.
RECURSIVE MergeLoop(_, _, _, _, _)
MergeLoop(index1, index2, i, j, merged_indexes) ==
    IF i <= Len(index1) /\ j <= Len(index2)
    THEN IF Head(index1[i].key) < Head(index2[j].key)
         THEN MergeLoop(index1, index2, i + 1, j, Append(merged_indexes, index1[i]))
         ELSE IF i > Len(index2) THEN MergePanic
         ELSE IF Head(index1[i].key) = Head(index2[i].key)
         THEN MergeLoop(index1, index2, i + 1, j + 1,
                  Append(merged_indexes,
                         IF index1[i].created_at > index2[i].created_at
                         THEN index1[i] ELSE index2[i]))
         ELSE MergeLoop(index1, index2, i, j + 1, Append(merged_indexes, index2[j]))
    ELSE [panic |-> FALSE,
          entries |-> merged_indexes \o SubSeq(index1, i, Len(index1))
                                     \o SubSeq(index2, j, Len(index2))]

\* new_sstable_index.insert for every merged entry, in order: the index is
\* ordered by key and a later insert replaces an earlier one for its key.
NewSSTableIndex(merged_indexes) ==
    LET ks == SortKeys({merged_indexes[i].key : i \in 1..Len(merged_indexes)})
        last(k) == CHOOSE i \in 1..Len(merged_indexes) :
                       /\ merged_indexes[i].key = k
                       /\ \A o \in 1..Len(merged_indexes) :
                              merged_indexes[o].key = k => o <= i
    IN [n \in 1..Len(ks) |-> merged_indexes[last(ks[n])]]

\* Compactor::merge_sstables
MergeSSTables(sst1, sst2) ==
    LET m == MergeLoop(sst1, sst2, 1, 1, <<>>)
    IN IF m.panic THEN MergePanic
       ELSE [panic |-> FALSE, entries |-> NewSSTableIndex(m.entries)]

\* The fold of merge_sstables_in_buckets over the SSTables of one bucket
\* after the first.
RECURSIVE MergeRest(_, _, _, _)
MergeRest(ssts, bucket, n, merged_sstable) ==
    IF n > Len(bucket) \/ merged_sstable.panic THEN merged_sstable
    ELSE MergeRest(ssts, bucket, n + 1,
                   MergeSSTables(merged_sstable.entries, ssts[bucket[n]].entries))

RECURSIVE SumHotness(_, _)
SumHotness(ssts, ids) ==
    IF ids = <<>> THEN 0 ELSE ssts[Head(ids)].hotness + SumHotness(ssts, Tail(ids))

\* A filter that holds none of the keys of the merged index.
EmptyBloomFilter(index) == {}

\* Compactor::build_bloomfilter_from_sstable: every key of the index is set.
BuildBloomFilterFromSSTable(index) == {index[i].key : i \in 1..Len(index)}

\* Compactor::merge_sstables_in_buckets for one bucket: the merged SSTable,
\* the sum of the hotness of the SSTables after the first, the new filter.
\* SSTable::from_file is unwrapped: a missing file is a panic.
MergeSSTablesInBucket(ssts, bucket) ==
    IF \E n \in 1..Len(bucket) : bucket[n] \notin DOMAIN ssts
    THEN [panic |-> TRUE]
    ELSE LET m == MergeRest(ssts, bucket, 2,
                            [panic |-> FALSE, entries |-> ssts[bucket[1]].entries])
         IN IF m.panic THEN [panic |-> TRUE]
            ELSE [panic |-> FALSE, entries |-> m.entries,
                  hotness |-> SumHotness(ssts, Tail(bucket)),
                  bloom_filter |-> BuildBloomFilterFromSSTable(m.entries)]

\* Steps 3 to 5 of run_compaction: every merged SSTable is inserted into
\* the bucket map and its filter pushed; those in failed are not written.
RECURSIVE WriteMerged(_, _, _, _)
WriteMerged(st, merged_sstables, n, failed) ==
    IF n > Len(merged_sstables) THEN st
    ELSE LET m == merged_sstables[n]
         IN WriteMerged(
                IF n \in failed THEN st
                ELSE [ssts |-> [p \in (DOMAIN st.ssts) \cup {st.id} |->
                                   IF p = st.id
                                   THEN [entries |-> m.entries, hotness |-> m.hotness]
                                   ELSE st.ssts[p]],
                      bks |-> InsertToAppropriateBucket(st.bks, st.ssts, st.id,
                                                        Len(m.entries)),
                      fs |-> Append(st.fs, [keys |-> m.bloom_filter, sst |-> st.id,
                                            hotness |-> m.hotness]),
                      kr |-> st.kr,
                      id |-> st.id + 1],
                merged_sstables, n + 1, failed)

\* BucketMap::delete_sstables when every file was removed: the paths leave
\* the bucket map.
DeleteSSTables(bks, paths) ==
    [i \in 1..Len(bks) |-> SelectSeq(bks[i], LAMBDA p : p \notin paths)]

\* Compactor::filter_out_old_bloom_filters: the closure keeps the filters
\* of the deleted SSTables; the caller's list is cleared, and
\* clone_from_slice into the cleared list panics unless nothing was kept.
FilterOutOldBloomFilters(fs, paths) ==
    LET updated_bloom_filters == SelectSeq(fs, LAMBDA b : b.sst \in paths)
    IN [bloom_filters |-> <<>>, updated |-> updated_bloom_filters,
        panic |-> updated_bloom_filters # <<>>]

\* The keys of the SSTables a cycle merges.
InputKeys(ssts, paths) ==
    UNION {{ssts[p].entries[i].key : i \in 1..Len(ssts[p].entries)} :
               p \in paths \cap DOMAIN ssts}

\* A cycle that cleans up whatever was written.
AlwaysCleanUp(expected, actual) == TRUE

\* The test before step 6: as many merged SSTables were written as expected.
AllWritten(expected, actual) == expected = actual

\* Compactor::run_compaction, steps 1 to 5: the buckets to compact are
\* merged and the merged SSTables written.
CompactionMerge ==
    /\ engine = "open"
    /\ compaction.pc = "idle"
    /\ compaction.cycles < MaxCycles
    /\ LET to_compact == BucketsToCompact(buckets)
           to_remove == SSTablesFilesToRemove(buckets)
           merged == [n \in 1..Len(to_compact) |->
                         MergeSSTablesInBucket(sstables, buckets[to_compact[n]])]
       IN /\ Cardinality(DOMAIN sstables) + Len(to_compact) <= MaxSST + MaxMerged
          /\ IF \E n \in 1..Len(merged) : merged[n].panic
             THEN /\ compaction' = [compaction EXCEPT !.cycles = @ + 1]
                  /\ ret' = [op |-> "compaction", key |-> <<>>, res |-> Err("panic")]
                  /\ UNCHANGED <<sstables, buckets, filters, key_range, next_id>>
             ELSE \E failed \in SUBSET (1..Len(merged)) :
                      LET expected == Len(merged)
                          actual == Len(merged) - Cardinality(failed)
                      IN /\ WriteDisk(WriteMerged(DiskState, merged, 1, failed))
                         /\ compaction' =
                                [pc |-> IF AllWritten(expected, actual)
                                        THEN "clean_up" ELSE "idle",
                                 to_remove |-> IF AllWritten(expected, actual)
                                               THEN to_remove ELSE {},
                                 input_keys |-> InputKeys(sstables, to_remove),
                                 cycles |-> compaction.cycles + 1]
                         /\ ret' = [op |-> "compaction", key |-> <<>>,
                                    res |-> [ok |-> TRUE],
                                    expected |-> expected, actual |-> actual]
    /\ UNCHANGED <<now, val_log, vlog_head, vlog_tail, active_memtable,
                   read_only_memtables, flusher_shares_map, tasks, flush_data_chan,
                   flush_signals, engine, crashes, last_write, iterator_vars, call, lock_vars>>

\* Compactor::run_compaction, step 6 on: clean_up_after_compaction. The
\* files in deleted are removed; if that is all of them the paths leave the
\* bucket map and the filter list is rewritten, else the cycle ends with
\* an error.
CompactionCleanUp ==
    /\ engine = "open"
    /\ compaction.pc = "clean_up"
    /\ \E deleted \in SUBSET (compaction.to_remove \cap DOMAIN sstables) :
           LET all_sstables_deleted == deleted = compaction.to_remove
               f == FilterOutOldBloomFilters(filters, compaction.to_remove)
           IN /\ sstables' = [p \in (DOMAIN sstables) \ deleted |-> sstables[p]]
              /\ IF all_sstables_deleted
                 THEN /\ buckets' = DeleteSSTables(buckets, compaction.to_remove)
                      /\ filters' = f.bloom_filters
                      /\ ret' = [op |-> "compaction", key |-> <<>>,
                                 res |-> IF f.panic THEN Err("panic") ELSE [ok |-> TRUE]]
                 ELSE /\ UNCHANGED <<buckets, filters>>
                      /\ ret' = [op |-> "compaction", key |-> <<>>, res |-> Err("BrokenPipe")]
    /\ compaction' = [compaction EXCEPT !.pc = "idle", !.to_remove = {}]
    /\ UNCHANGED <<now, val_log, vlog_head, vlog_tail, active_memtable,
                   read_only_memtables, flusher_shares_map, tasks, flush_data_chan,
                   flush_signals, key_range, next_id, engine, crashes, last_write,
                   iterator_vars, call, lock_vars>>

\* --------------------------------------------------------------- recovery
\* The files recovery finds for a bucket: it reads the directory named by
\* the literal "sstable_{timestamp}" and takes at most one entry from it.
SstFilesFound(bucket) == <<>>

\* The scan of the buckets directory: a bucket with fewer than two files
\* ends recovery with InvalidSSTableDirectoryError.
RecoverBuckets(bks) ==
    IF \E i \in 1..Len(bks) : Len(SstFilesFound(bks[i])) < 2
    THEN Err("InvalidSSTableDirectoryError")
    ELSE [ok |-> TRUE]

\* DataStore::recover_memtable: replays the value log from head_offset; the
\* record at head_offset is skipped, a full memtable is sealed (without a
\* head marker) into the read-only map.
RECURSIVE SumRecordSizes(_, _)
SumRecordSizes(records, n) ==
    IF n = 0 THEN 0 ELSE SumRecordSizes(records, n - 1) + RecordSize(records[n])

\* An offset that advances by the fixed part of each record only.
MostRecentOffsetSkipsPayload(records, i, head_offset) ==
    head_offset + (i - 1) * (SIZE_OF_U32 + SIZE_OF_U32 + SIZE_OF_U64 + SIZE_OF_U8)

\* most_recent_offset when the loop reaches the i-th recovered record:
\* head_offset plus the sizes of the records before it.
MostRecentOffset(records, i, head_offset) ==
    head_offset + SumRecordSizes(records, i - 1)

RECURSIVE RecoverMemtable(_, _, _, _, _, _)
RecoverMemtable(records, i, head_offset, active, ro, id) ==
    IF i > Len(records) THEN [active |-> active, ro |-> ro, id |-> id]
    ELSE LET r == records[i]
             most_recent_offset == MostRecentOffset(records, i, head_offset)
             e == NewEntry(r.key, most_recent_offset, r.created_at, r.is_tombstone)
         IN IF most_recent_offset = head_offset
            THEN RecoverMemtable(records, i + 1, head_offset, active, ro, id)
            ELSE IF MemIsFull(active)
            THEN RecoverMemtable(records, i + 1, head_offset,
                     MemInsert(EmptyMemtable, e),
                     Append(ro, [id |-> id,
                                 table |-> [active EXCEPT !.read_only = TRUE]]),
                     id + 1)
            ELSE RecoverMemtable(records, i + 1, head_offset,
                     MemInsert(active, e), ro, id)

\* The process stops (a crash or a close: the engine has no shutdown step)
\* and DataStore::with_capacity_and_rate runs on the files left on disk.
Reopen ==
    /\ engine = "open"
    /\ crashes < MaxCrash
    /\ crashes' = crashes + 1
    /\ tasks' = <<>>
    /\ flush_data_chan' = <<>>
    /\ flush_signals' = 0
    /\ flusher_shares_map' = TRUE
    /\ ret' = [op |-> "open", key |-> <<>>, res |-> RecoverBuckets(buckets),
               after |-> ret.op, in_flight |-> Len(tasks)]
    /\ IF RecoverBuckets(buckets).ok
       THEN LET head_offset == 0
                m == RecoverMemtable(VlogRecover(val_log, head_offset), 1,
                                     head_offset, EmptyMemtable, <<>>, next_id)
            IN /\ engine' = "open"
               /\ active_memtable' = m.active
               /\ read_only_memtables' = m.ro
               /\ next_id' = m.id
               /\ vlog_head' = 0
               /\ vlog_tail' = 0
               /\ filters' = <<>>
               /\ key_range' = <<>>
       ELSE /\ engine' = "failed"
            /\ active_memtable' = EmptyMemtable
            /\ read_only_memtables' = <<>>
            /\ filters' = <<>>
            /\ key_range' = <<>>
            /\ UNCHANGED <<next_id, vlog_head, vlog_tail>>
    /\ range_iterator' = DefaultIterator
    /\ iter_out' = NoOutput
    /\ compaction' = NoCompaction
    /\ UNCHANGED <<now, val_log, sstables, buckets, last_write, call, lock_vars>>

\* ------------------------------------------------------------------- seek
\* InMemoryTable::is_entry_within_range
IsEntryWithinRange(e, start, end) == KeyLeq(start, e.key) /\ KeyLeq(e.key, end)

\* The entries of a memtable within [start, end], in key order.
MemRange(m, start, end) ==
    SelectSeq(MemSortedEntries(m), LAMBDA e : IsEntryWithinRange(e, start, end))

\* The local merged_indexes of Merger::merge_entries: a two-way merge by
\* key; on equal keys e1's entry wins only with a strictly greater created_at.
RECURSIVE MergedIndexes(_, _)
MergedIndexes(e1, e2) ==
    IF e1 = <<>> THEN e2
    ELSE IF e2 = <<>> THEN e1
    ELSE IF KeyLess(Head(e1).key, Head(e2).key)
    THEN <<Head(e1)>> \o MergedIndexes(Tail(e1), e2)
    ELSE IF Head(e1).key = Head(e2).key
    THEN <<IF Head(e1).created_at > Head(e2).created_at THEN Head(e1) ELSE Head(e2)>>
         \o MergedIndexes(Tail(e1), Tail(e2))
    ELSE <<Head(e2)>> \o MergedIndexes(e1, Tail(e2))

\* Merger::merge_entries: self.entries after the call. merged_indexes is
\* built and dropped; nothing is assigned to self.entries.
MergeEntries(entries, entries_to_merge) ==
    LET merged_indexes == MergedIndexes(entries, entries_to_merge)
    IN entries

\* The SSTables seek reads: a filter holds start or end, or the key range
\* overlaps [start, end].
SSTablesWithinRange(start, end) ==
    {filters[i].sst : i \in {j \in 1..Len(filters) :
         BloomContains(filters[j], start, {}) \/ BloomContains(filters[j], end, {})}}
    \cup {p \in DOMAIN key_range :
             KeyLeq(key_range[p].smallest, end) /\ KeyLeq(start, key_range[p].biggest)}

\* The entry lists seek hands to the merger, in the order it visits them:
\* the active memtable, the read-only memtables, the SSTables in range.
SeekSources(start, end) ==
    (IF MemKeys(active_memtable) # {}
     THEN <<MemRange(active_memtable, start, end)>> ELSE <<>>)
    \o [i \in 1..Len(read_only_memtables) |->
           MemRange(read_only_memtables[i].table, start, end)]
    \o LET ps == SortKeys({<<p>> : p \in SSTablesWithinRange(start, end) \cap DOMAIN sstables})
       IN [i \in 1..Len(ps) |->
              SelectSeq(sstables[ps[i][1]].entries,
                        LAMBDA e : IsEntryWithinRange(e, start, end))]

RECURSIVE MergeAll(_, _)
MergeAll(entries, sources) ==
    IF sources = <<>> THEN entries
    ELSE MergeAll(MergeEntries(entries, Head(sources)), Tail(sources))

\* The key list of the iterator seek builds.
SeekKeys(start, end) ==
    LET es == MergeAll(<<>>, SeekSources(start, end))
    IN [i \in 1..Len(es) |-> es[i].key]

\* StorageEngine::seek(start, end)
Seek(start, end) ==
    /\ engine = "open"
    /\ KeyLeq(start, end)
    /\ ret' = [op |-> "seek", key |-> start, end |-> end,
               res |-> [ok |-> TRUE, keys |-> SeekKeys(start, end)]]
    /\ range_iterator' =
           NewRangeIterator(DEFAULT_ALLOW_PREFETCH, DEFAULT_PREFETCH_SIZE,
                            MergeAll(<<>>, SeekSources(start, end)))
    /\ iter_out' = NoOutput
    /\ UNCHANGED <<now, engine_vars, engine, crashes, last_write, compaction, call, lock_vars>>

\* The outcome of RangeIterator::next on a given value log: the iterator
\* after the call and what the call gave: an entry, the empty stream, or a
\* panic (prefetch_entries indexed past its end).
IterNextOn(log, it) ==
    IF ~it.allow_prefetch THEN [it |-> it, kind |-> "empty"]
    ELSE IF CurrentIsAtEndPrefetchedKeys(it) /\ CurrentIsAtLastKey(it)
    THEN [it |-> it, kind |-> "empty"]
    ELSE LET fetched == IF CurrentIsAtEndPrefetchedKeys(it)
                        THEN PrefetchEntries(log, it) ELSE it
         IN IF fetched.current < Len(fetched.prefetch_entries)
            THEN [it |-> [fetched EXCEPT !.current = fetched.current + 1],
                  kind |-> "entry",
                  entry |-> fetched.prefetch_entries[fetched.current + 1]]
            ELSE [it |-> fetched, kind |-> "panic"]

\* RangeIterator::next
IterNext ==
    /\ engine = "open"
    /\ ~iter_out.panicked
    /\ LET r == IterNextOn(val_log, range_iterator)
       IN /\ range_iterator' = r.it
          /\ iter_out' =
                 [yielded |-> IF r.kind = "entry"
                              THEN Append(iter_out.yielded, r.entry)
                              ELSE iter_out.yielded,
                  ended |-> iter_out.ended \/ r.kind = "empty",
                  panicked |-> r.kind = "panic"]
          /\ ret' = [op |-> "next", key |-> <<>>, res |-> [ok |-> r.kind # "panic", kind |-> r.kind]]
    /\ UNCHANGED <<now, engine_vars, engine, crashes, last_write, compaction, call, lock_vars>>

\* ------------------------------------------------------------------ Next
\* The workload: a client overwrites a key with a value that differs from
\* the one it wrote last.
FreshValues(k) == Values \ {last_write[k].value}

\* The accepted writes, with the clock advancing by one of ticks between
\* two reads.
Writes(ticks) ==
    \/ \E k \in UserKeys, t1 \in ticks, t2 \in ticks :
           \E v \in FreshValues(k) : Put(k, v, t1, t2)
    \/ \E k \in UserKeys, t1 \in ticks, t2 \in ticks : Delete(k, t1, t2)

\* The background flush tasks.
Background ==
    \/ \E i \in 1..MaxTasks + 1 : FlushWrite(i)
    \/ \E i \in 1..MaxTasks + 1 : FlushFails(i)
    \/ \E i \in 1..MaxTasks + 1 : FlushRemove(i)

\* The writes of a caller whose calls are at least a millisecond apart, the
\* background flush tasks and flush_all.
NextWrites ==
    \/ Writes({1})
    \/ Background
    \/ FlushAll
    \/ FlushAllEmpty

\* The engine with stops and restarts.
Next ==
    \/ NextWrites
    \/ Reopen

Spec == Init /\ [][Next]_vars

\* The engine with the calls that are turned down.
NextCalls ==
    \/ NextWrites
    \/ \E k \in UserKeys : \E v \in FreshValues(k) : PutAppendFails(k, v)
    \/ \E k \in UserKeys, fp \in SUBSET (DOMAIN sstables) : DeleteRejected(k, fp)

SpecCalls == Init /\ [][NextCalls]_vars

\* The engine with range queries.
NextSeek ==
    \/ NextWrites
    \/ \E s \in UserKeys, e \in UserKeys : Seek(s, e)

SpecSeek == Init /\ [][NextSeek]_vars

\* The engine under a caller whose calls may fall into one millisecond.
NextTies ==
    \/ Writes(Ticks)
    \/ Background

SpecTies == Init /\ [][NextTies]_vars

\* The engine with the flush calls that fail.
NextFlushAll ==
    \/ NextWrites
    \/ \E j \in 0..MAX_BUFFER_WRITE_NUMBER + 1 : FlushAllFails(j)
    \/ FlushEmpty

SpecFlushAll == Init /\ [][NextFlushAll]_vars

\* The engine with a longer value log, so that puts seal memtables and hand
\* them to the flusher after flush_all_memtables has run, and more flush
\* tasks, so that a put seals while tasks of an earlier seal still run.
NextLateSeal ==
    \/ \E k \in UserKeys : \E v \in FreshValues(k) :
           PutWithin(MaxLateLog, MaxLateTasks, k, v, 1, 1)
    \/ Background
    \/ FlushAll

SpecLateSeal == Init /\ [][NextLateSeal]_vars

\* The engine without I/O failures, its flush tasks scheduled fairly: a
\* task that can take its next step takes it in the end. The caller is
\* under no obligation to call again.
NextFairFlush ==
    \/ Writes({1})
    \/ \E i \in 1..MaxTasks : FlushWrite(i)
    \/ \E i \in 1..MaxTasks : FlushRemove(i)

FairFlush ==
    \A i \in 1..MaxTasks : WF_vars(FlushWrite(i)) /\ WF_vars(FlushRemove(i))

SpecFairFlush == Init /\ [][NextFairFlush]_vars /\ FairFlush

\* The engine's threads at the level of their lock steps. The data the
\* operations read and write is left as it is.
LockFrame ==
    UNCHANGED <<now, engine_vars, engine, crashes, ret, last_write,
                iterator_vars, compaction, call>>

\* The caller calls get, seek or a sealing put.
StartCall(prog) ==
    /\ ~Running("caller")
    /\ threads["caller"].started < MaxCalls
    /\ threads' = [threads EXCEPT !["caller"] =
           [prog |-> prog, pc |-> 1, waiting |-> FALSE, started |-> @.started + 1]]
    /\ UNCHANGED rwlocks
    /\ LockFrame

\* read().await or write().await: the thread joins the lock's queue.
LockRequest(t) ==
    /\ Running(t)
    /\ Instr(t).do = "acquire"
    /\ ~threads[t].waiting
    /\ rwlocks' = [rwlocks EXCEPT ![Instr(t).lock].queue =
           Append(@, [thread |-> t, mode |-> Instr(t).mode])]
    /\ threads' = [threads EXCEPT ![t].waiting = TRUE]
    /\ LockFrame

\* The lock is given to the thread at the head of its queue: to a reader
\* when no writer holds it, to a writer when nobody holds it.
LockGrant(t) ==
    /\ Running(t)
    /\ threads[t].waiting
    /\ LET l == Instr(t).lock
           lock == rwlocks[l]
       IN /\ lock.queue # <<>>
          /\ Head(lock.queue).thread = t
          /\ lock.writer = "none"
          /\ Instr(t).mode = "write" => \A u \in Threads : lock.readers[u] = 0
          /\ rwlocks' = [rwlocks EXCEPT ![l] =
                 [readers |-> IF Instr(t).mode = "read"
                              THEN [lock.readers EXCEPT ![t] = @ + 1]
                              ELSE lock.readers,
                  writer |-> IF Instr(t).mode = "write" THEN t ELSE "none",
                  queue |-> Tail(lock.queue)]]
    /\ threads' = [threads EXCEPT ![t].waiting = FALSE, ![t].pc = @ + 1]
    /\ LockFrame

\* A guard is dropped.
LockRelease(t) ==
    /\ Running(t)
    /\ Instr(t).do = "release"
    /\ rwlocks' = [rwlocks EXCEPT ![Instr(t).lock] =
           IF @.writer = t THEN [@ EXCEPT !.writer = "none"]
           ELSE [@ EXCEPT !.readers[t] = @ - 1]]
    /\ threads' = [threads EXCEPT ![t].pc = @ + 1]
    /\ LockFrame

\* put spawns the flush_handler task of every sealed memtable (a task of
\* the model that is still running is not started again).
Spawn(t) ==
    /\ Running(t)
    /\ Instr(t).do = "spawn"
    /\ threads' = [u \in Threads |->
           IF u = t THEN [threads[t] EXCEPT !.pc = @ + 1]
           ELSE IF u \in FlushThreads /\ ~Running(u)
           THEN [prog |-> FlushProgram(TableOfThread(u)), pc |-> 1,
                 waiting |-> FALSE, started |-> threads[u].started + 1]
           ELSE threads[u]]
    /\ UNCHANGED rwlocks
    /\ LockFrame

NextLocks ==
    \/ \E prog \in {GetProgram, SeekProgram, PutProgram} : StartCall(prog)
    \/ \E t \in Threads : LockRequest(t)
    \/ \E t \in Threads : LockGrant(t)
    \/ \E t \in Threads : LockRelease(t)
    \/ \E t \in Threads : Spawn(t)

\* The runtime polls every task that can go on; the caller need not call
\* again.
FairLocks ==
    \A t \in Threads :
        /\ WF_vars(LockRequest(t))
        /\ WF_vars(LockGrant(t))
        /\ WF_vars(LockRelease(t))
        /\ WF_vars(Spawn(t))

SpecLocks == Init /\ [][NextLocks]_vars /\ FairLocks

\* The engine with compaction cycles.
NextCompaction ==
    \/ Writes({1})
    \/ \E i \in 1..MaxTasks + 1 : FlushWrite(i)
    \/ \E i \in 1..MaxTasks + 1 : FlushRemove(i)
    \/ FlushAll
    \/ CompactionMerge
    \/ CompactionCleanUp

SpecCompaction == Init /\ [][NextCompaction]_vars

\* The iterator on its own. The keys a range may hold, ascending, and what
\* the value log holds for each: nothing, a value, or a tombstone.
IteratorKeys == <<<<97>>, <<110>>, <<122>>>>
KeyStates == {"absent", "value", "tombstone"}

\* The value log after the writes that leave the keys in the given states.
RECURSIVE IteratorLog(_, _, _)
IteratorLog(states, i, log) ==
    IF i > Len(IteratorKeys) THEN log
    ELSE IteratorLog(states, i + 1,
             IF states[i] = "absent" THEN log
             ELSE IF states[i] = "value"
             THEN VlogAppend(log, IteratorKeys[i], <<i>>, i + 1, FALSE)
             ELSE VlogAppend(log, IteratorKeys[i], TOMB_STONE_MARKER, i + 1, TRUE))

\* The key list of an iterator over every user record of the log.
IteratorKeyList(log) ==
    LET rs == SelectSeq(log, LAMBDA r : r.key \in SeqToSet(IteratorKeys))
    IN [i \in 1..Len(rs) |->
           NewEntry(rs[i].key, rs[i].offset, rs[i].created_at, rs[i].is_tombstone)]

InitIterator ==
    \E states \in [1..Len(IteratorKeys) -> KeyStates] :
        \E allow \in BOOLEAN, size \in 1..MaxPrefetch :
            LET log == IteratorLog(states, 1, InitLog)
            IN InitWith(log, NewRangeIterator(allow, size, IteratorKeyList(log)))

NextIterator == IterNext

SpecIterator == InitIterator /\ [][NextIterator]_vars

\* The two merges on their own. The keys of the lists to merge, ascending
\* (two of them share their first byte), and the entries a list may hold
\* for a key; val_offset tells the two lists apart.
MergeKeys == <<<<97>>, <<97, 98>>, <<110>>, <<122>>>>
MaxCreatedAt == 2
MergeChoices ==
    {[present |-> FALSE, created_at |-> 0, is_tombstone |-> FALSE]}
    \cup {[present |-> TRUE, created_at |-> t, is_tombstone |-> d] :
              t \in 1..MaxCreatedAt, d \in BOOLEAN}

\* The sorted, duplicate-free entry list of the given choices.
MergeInput(choices, val_offset) ==
    LET present == SelectSeq([i \in 1..Len(MergeKeys) |-> i],
                             LAMBDA i : choices[i].present)
    IN [n \in 1..Len(present) |->
           NewEntry(MergeKeys[present[n]], val_offset,
                    choices[present[n]].created_at,
                    choices[present[n]].is_tombstone)]

InitMerge ==
    \E c1, c2 \in [1..Len(MergeKeys) -> MergeChoices] :
        /\ InitEngine(InitLog, DefaultIterator)
        /\ call = [fn |-> "none", args |-> <<MergeInput(c1, 1), MergeInput(c2, 2)>>]

\* Compactor::merge_sstables(sst1, sst2) on the arguments drawn.
MergeSSTablesCall ==
    /\ call.fn = "none"
    /\ call' = [fn |-> "merge_sstables", args |-> call.args,
                res |-> MergeSSTables(call.args[1], call.args[2])]
    /\ UNCHANGED <<now, engine_vars, engine, crashes, ret, last_write,
                   iterator_vars, compaction, lock_vars>>

\* Merger::merge_entries(entries_to_merge) on a merger that holds the
\* first list; the result is the merger's entries after the call.
MergeEntriesCall ==
    /\ call.fn = "none"
    /\ call' = [fn |-> "merge_entries", args |-> call.args,
                res |-> [panic |-> FALSE,
                         entries |-> MergeEntries(call.args[1], call.args[2])]]
    /\ UNCHANGED <<now, engine_vars, engine, crashes, ret, last_write,
                   iterator_vars, compaction, lock_vars>>

NextMerge ==
    \/ MergeSSTablesCall
    \/ MergeEntriesCall

SpecMerge == InitMerge /\ [][NextMerge]_vars

\* The sparse index on its own. The keys a data file may hold, ascending,
\* and the keys looked up: those, and keys below, between and above them.
IndexKeys == <<<<97>>, <<97, 98>>, <<110>>, <<122>>>>
SearchedKeys == SeqToSet(IndexKeys) \cup {<<96>>, <<100>>, <<123>>}

\* The size of an entry record of the data file.
DataEntrySize(key) == SIZE_OF_U32 + Len(key) + SIZE_OF_U32 + SIZE_OF_U64 + SIZE_OF_U8

\* The offset at which the n-th entry of a data file with the given keys
\* starts; for n = Len(keys) + 1, the end of the file.
RECURSIVE DataOffset(_, _)
DataOffset(keys, n) ==
    IF n = 1 THEN 0 ELSE DataOffset(keys, n - 1) + DataEntrySize(keys[n - 1])

\* The index file of a data file that holds the given keys of IndexKeys.
IndexFile(present) ==
    LET keys == SelectSeq(IndexKeys, LAMBDA k : k \in present)
    IN [n \in 1..Len(keys) |-> [key |-> keys[n], offset |-> DataOffset(keys, n)]]

InitSparseIndex ==
    \E present \in SUBSET SeqToSet(IndexKeys) : \E k1, k2 \in SearchedKeys :
        /\ InitEngine(InitLog, DefaultIterator)
        /\ call = [fn |-> "none", args |-> <<IndexFile(present), k1, k2>>]

\* SparseIndex::get(searched_key) on the index file drawn.
SparseIndexGetCall ==
    /\ call.fn = "none"
    /\ call' = [fn |-> "get", args |-> call.args,
                res |-> SparseIndexGet(call.args[1], call.args[2])]
    /\ UNCHANGED <<now, engine_vars, engine, crashes, ret, last_write,
                   iterator_vars, compaction, lock_vars>>

\* SparseIndex::get_offset_range(start_key, end_key) on the index file drawn.
GetOffsetRangeCall ==
    /\ call.fn = "none"
    /\ KeyLeq(call.args[2], call.args[3])
    /\ call' = [fn |-> "get_offset_range", args |-> call.args,
                res |-> GetOffsetRange(call.args[1], call.args[2], call.args[3])]
    /\ UNCHANGED <<now, engine_vars, engine, crashes, ret, last_write,
                   iterator_vars, compaction, lock_vars>>

NextSparseIndex ==
    \/ SparseIndexGetCall
    \/ GetOffsetRangeCall

SpecSparseIndex == InitSparseIndex /\ [][NextSparseIndex]_vars

\* ---------------------------------------------------------------- claims
\* The keys whose last accepted write is a put, and those whose last
\* accepted write is a delete.
PutKeys == {k \in UserKeys : last_write[k].op = "put"}
DeletedKeys == {k \in UserKeys : last_write[k].op = "delete"}

\* C1: on an open engine, get(k) returns the value of the last successful
\* put(k, v) when no delete followed it: never an error, never an older
\* value, whatever seals and background flushes happened in between.
C1_GetReturnsLastPut ==
    engine = "open" =>
        \A k \in PutKeys : GetExact(k) = Ok(last_write[k].value, last_write[k].created_at)

\* C2: once put(k, v2) has overwritten put(k, v1), no later get(k) returns
\* the overwritten value, also after flush_all_memtables.
C2_NoOverwrittenValue ==
    engine = "open" =>
        \A k \in PutKeys : GetExact(k).ok => GetExact(k).value = last_write[k].value

\* C4: after put(k, v) and a successful delete(k), whatever flushes follow,
\* get(k) never returns a value.
C4_DeletedKeyHasNoValue ==
    engine = "open" => \A k \in DeletedKeys : ~GetExact(k).ok

\* The tombstone of k's last delete sits in a memtable.
TombstoneInMemtable(k) ==
    \/ k \in MemKeys(active_memtable) /\ active_memtable.entries[k].is_tombstone
    \/ \E i \in 1..Len(read_only_memtables) :
           /\ k \in MemKeys(read_only_memtables[i].table)
           /\ read_only_memtables[i].table.entries[k].is_tombstone
           /\ read_only_memtables[i].table.entries[k].created_at = last_write[k].created_at

\* The tombstone of k's last delete sits in an SSTable.
TombstoneInSSTable(k) ==
    \E p \in DOMAIN sstables : \E i \in 1..Len(sstables[p].entries) :
        /\ sstables[p].entries[i].key = k
        /\ sstables[p].entries[i].is_tombstone
        /\ sstables[p].entries[i].created_at = last_write[k].created_at

MemtablesEmpty ==
    MemKeys(active_memtable) = {} /\ read_only_memtables = <<>>

\* C3: after put(k, v) and a successful delete(k), get(k) fails with
\* KeyFoundAsTombstoneInMemtableError while the tombstone is in a memtable,
\* and with KeyFoundAsTombstoneInSSTableError once the tombstone is in an
\* SSTable and the memtables are empty.
C3_TombstoneErrorKind ==
    engine = "open" =>
        \A k \in DeletedKeys :
            /\ TombstoneInMemtable(k) =>
                   GetExact(k) = Err("KeyFoundAsTombstoneInMemtableError")
            /\ (MemtablesEmpty /\ TombstoneInSSTable(k)) =>
                   \A fp \in SUBSET (DOMAIN sstables) :
                       Get(k, fp) = Err("KeyFoundAsTombstoneInSSTableError")

\* C5: a delete(k) that returns an error returns the error of get(k) and
\* changes nothing: no value-log record, no memtable change, no seal; and a
\* delete succeeds only if get(k) found a value.
C5_RejectedDeleteChangesNothing ==
    [][/\ (ret'.op = "delete" /\ ~ret'.res.ok) =>
            /\ UNCHANGED engine_vars
            /\ \E fp \in SUBSET (DOMAIN sstables) : ret'.res = Get(ret'.key, fp)
       /\ (ret'.op = "delete" /\ ret'.res.ok) => GetExact(ret'.key).ok]_vars

\* C5 witness: a delete turned down on a key that is already a tombstone,
\* at a moment when an accepted delete would have sealed the memtable.
C5_Witness ==
    /\ ret.op = "delete"
    /\ ~ret.res.ok
    /\ ret.res.err = "KeyFoundAsTombstoneInMemtableError"
    /\ MemIsFull(active_memtable)

\* The keys no put was ever accepted for.
NeverPut == {k \in UserKeys : last_write[k].op = "none"}

\* C6 as stated: get(k) for a key that was never put returns NotFoundInDB,
\* in particular when other keys are held and no SSTable exists yet.
C6_NeverPutIsNotFoundInDB ==
    (engine = "open" /\ PutKeys # {}) =>
        \A k \in NeverPut : \A fp \in SUBSET (DOMAIN sstables) :
            Get(k, fp) = Err("NotFoundInDB")

\* The error kinds that say a key is absent.
NotFoundKinds ==
    {"KeyNotFoundInAnySSTableError", "KeyNotFoundByAnyBloomFilterError", "NotFoundInDB"}

\* C6 amended: get(k) for a key that was never put returns an error of a
\* not-found kind, never a value or a tombstone error; while no SSTable
\* exists the kind is KeyNotFoundInAnySSTableError, not NotFoundInDB.
C6_NeverPutIsNotFound ==
    engine = "open" =>
        \A k \in NeverPut : \A fp \in SUBSET (DOMAIN sstables) :
            /\ ~Get(k, fp).ok
            /\ Get(k, fp).err \in NotFoundKinds
            /\ sstables = <<>> =>
                   Get(k, fp) = Err("KeyNotFoundInAnySSTableError")

\* C6 witness: a key never put, another key held only in memtables, no
\* SSTable yet.
C6_Witness ==
    /\ engine = "open"
    /\ NeverPut # {}
    /\ PutKeys # {}
    /\ read_only_memtables # <<>>
    /\ sstables = <<>>

\* C7: a put whose value-log append fails returns the error and leaves the
\* active memtable, the read-only map, the value log and its head, the
\* SSTable registries and the flush tasks as they were.
C7_FailedPutChangesNothing ==
    [][(ret'.op = "put" /\ ~ret'.res.ok) => UNCHANGED engine_vars]_vars

\* C7 witness: a put failed at a moment when an accepted put would have
\* sealed the active memtable and started the flush tasks.
C7_Witness ==
    /\ ret.op = "put"
    /\ ~ret.res.ok
    /\ MemIsFull(active_memtable)
    /\ Len(read_only_memtables) + 1 >= MAX_BUFFER_WRITE_NUMBER

\* A reopened engine reads every accepted write.
ReadsEveryWrite ==
    /\ engine = "open"
    /\ \A k \in PutKeys : GetExact(k) = Ok(last_write[k].value, last_write[k].created_at)
    /\ \A k \in DeletedKeys : ~GetExact(k).ok

\* C8: a crash loses no accepted write, in particular a crash while the
\* flush tasks of several sealed memtables are in flight: the reopened
\* store reads every key as last written.
C8_RecoveryLosesNoWrite ==
    (ret.op = "open" /\ crashes > 0 /\ ret.in_flight > 0 /\ PutKeys # {})
        => ReadsEveryWrite

\* Every SSTable on disk is registered in the bucket map, the Bloom filter
\* list and the key-range index.
EverySSTableRegistered ==
    \A p \in DOMAIN sstables :
        /\ \E i \in 1..Len(buckets) : p \in SeqToSet(buckets[i])
        /\ \E i \in 1..Len(filters) : filters[i].sst = p
        /\ p \in DOMAIN key_range

\* C9: after put(k, v), flush_all, close and open, get(k) returns v and
\* the reopened engine has every SSTable registered in the bucket map, the
\* Bloom filter list and the key-range index.
C9_FlushReopenRoundTrip ==
    (ret.op = "open" /\ crashes > 0 /\ ret.after = "flush_all" /\ PutKeys # {})
        => (ReadsEveryWrite /\ EverySSTableRegistered)

\* The user keys within [start, end] that the active memtable, the
\* read-only memtables and the SSTables hold, ascending, each once.
KeysWithinRange(start, end) ==
    SortKeys({k \in UserKeys :
        /\ KeyLeq(start, k) /\ KeyLeq(k, end)
        /\ \/ k \in MemKeys(active_memtable)
           \/ \E i \in 1..Len(read_only_memtables) :
                  k \in MemKeys(read_only_memtables[i].table)
           \/ \E p \in DOMAIN sstables : \E i \in 1..Len(sstables[p].entries) :
                  sstables[p].entries[i].key = k})

\* C10: the iterator seek(start, end) builds lists exactly the keys within
\* [start, end] held by the memtables and the SSTables, each once, ascending.
C10_SeekListsKeysInRange ==
    ret.op = "seek" =>
        SelectSeq(ret.res.keys, LAMBDA k : k \in UserKeys)
            = KeysWithinRange(ret.key, ret.end)

\* What an iterator has to yield: the key and the value of every entry of
\* its key list that is not a tombstone, in the order of the list.
RECURSIVE LiveEntries(_, _)
LiveEntries(log, keys) ==
    IF keys = <<>> THEN <<>>
    ELSE (IF Head(keys).is_tombstone THEN <<>>
          ELSE <<[key |-> Head(keys).key,
                  val |-> VlogGet(log, Head(keys).val_offset).value]>>)
         \o LiveEntries(log, Tail(keys))

IsPrefix(s, t) == Len(s) <= Len(t) /\ s = SubSeq(t, 1, Len(s))

\* C11: with allow_prefetch set, the next() calls of an iterator yield the
\* entries of its key list that are not tombstones, each once, in key order,
\* with their values, and the empty stream once all were yielded, for any
\* position of the tombstones and any prefetch_entries_size >= 1.
C11_NextYieldsLiveEntriesOnce ==
    range_iterator.allow_prefetch =>
        /\ ~iter_out.panicked
        /\ IsPrefix(iter_out.yielded, LiveEntries(val_log, range_iterator.keys))
        /\ iter_out.ended =>
               iter_out.yielded = LiveEntries(val_log, range_iterator.keys)

\* The entry of k's last accepted write.
LastEntryOf(k, e) == e.key = k /\ e.created_at = last_write[k].created_at

\* k's last write is no longer in the active memtable: it was sealed.
WrittenBeforeSeal(k) ==
    ~(k \in MemKeys(active_memtable) /\ LastEntryOf(k, active_memtable.entries[k]))

\* k's last write is held by a table of the read-only map.
InReadOnlyMap(k) ==
    \E i \in 1..Len(read_only_memtables) :
        /\ k \in MemKeys(read_only_memtables[i].table)
        /\ LastEntryOf(k, read_only_memtables[i].table.entries[k])

\* The SSTable at path p is on disk, in a bucket, in the key-range index
\* and has a Bloom filter.
Registered(p) ==
    /\ p \in DOMAIN sstables
    /\ \E i \in 1..Len(buckets) : p \in SeqToSet(buckets[i])
    /\ \E i \in 1..Len(filters) : filters[i].sst = p
    /\ p \in DOMAIN key_range

\* k's last write is held by a registered SSTable.
InRegisteredSSTable(k) ==
    \E p \in DOMAIN sstables :
        /\ Registered(p)
        /\ \E i \in 1..Len(sstables[p].entries) : LastEntryOf(k, sstables[p].entries[i])

\* C12: a key written before the active memtable was sealed stays
\* readable while its sealed memtable waits for, undergoes or has finished
\* a background flush: get(k) returns its value, and k is in the read-only
\* map or in a registered SSTable.
C12_SealedKeyStaysReadable ==
    (engine = "open" /\ crashes = 0) =>
        \A k \in PutKeys :
            WrittenBeforeSeal(k) =>
                /\ InReadOnlyMap(k) \/ InRegisteredSSTable(k)
                /\ GetExact(k) = Ok(last_write[k].value, last_write[k].created_at)

\* The SSTable at path p holds key k.
SSTableHolds(p, k) ==
    \E i \in 1..Len(sstables[p].entries) : sstables[p].entries[i].key = k

\* C13: compaction never makes a key disappear: every user key that was
\* in an SSTable a cycle merged is, at every step of the cycle and after
\* it, in an SSTable that is on disk and registered (bucket map, Bloom
\* filter, key-range index).
C13_CompactionKeepsKeys ==
    engine = "open" =>
        \A k \in compaction.input_keys \cap UserKeys :
            \E p \in DOMAIN sstables : Registered(p) /\ SSTableHolds(p, k)

\* The SSTables the bucket map lists and whose files are on disk.
LiveSSTables ==
    {p \in DOMAIN sstables : \E i \in 1..Len(buckets) : p \in SeqToSet(buckets[i])}

\* C16: every live SSTable is referenced by exactly one key-range entry
\* and exactly one Bloom filter, and no key-range entry or Bloom filter
\* references an SSTable whose files were deleted.
C16_RegistriesMatchLiveSSTables ==
    engine = "open" =>
        /\ \A p \in LiveSSTables :
               /\ p \in DOMAIN key_range
               /\ Cardinality({i \in 1..Len(filters) : filters[i].sst = p}) = 1
        /\ \A p \in DOMAIN key_range : p \in DOMAIN sstables
        /\ \A i \in 1..Len(filters) : filters[i].sst \in DOMAIN sstables

\* C17: the Bloom filter registered for an SSTable has no false negative:
\* it contains every key stored in the SSTable, whether the SSTable was
\* written by a flush or by a compaction.
C17_NoFalseNegative ==
    \A i \in 1..Len(filters) :
        filters[i].sst \in DOMAIN sstables =>
            \A n \in 1..Len(sstables[filters[i].sst].entries) :
                BloomContains(filters[i], sstables[filters[i].sst].entries[n].key, {})

\* C17 witness: the filter list holds the filter of an SSTable written by
\* a flush and the filter of a merged SSTable written by a compaction.
C17_Witness ==
    /\ compaction.pc = "clean_up"
    /\ compaction.to_remove # {}
    /\ \E i \in 1..Len(filters), j \in 1..Len(filters) :
           /\ filters[i].sst \in compaction.to_remove
           /\ filters[j].sst \in (DOMAIN sstables) \ compaction.to_remove
           /\ filters[j].sst \notin DOMAIN key_range
           /\ filters[j].keys \cap UserKeys # {}

\* The keys held by the active memtable and the read-only memtables.
MemtableKeys ==
    MemKeys(active_memtable)
    \cup UNION {MemKeys(read_only_memtables[i].table) : i \in 1..Len(read_only_memtables)}

\* Registered, on a given state of the disk and the registries.
RegisteredIn(ssts, bks, fs, kr, p) ==
    /\ p \in DOMAIN ssts
    /\ \E i \in 1..Len(bks) : p \in SeqToSet(bks[i])
    /\ \E i \in 1..Len(fs) : fs[i].sst = p
    /\ p \in DOMAIN kr

\* C14: after flush_all returns Ok the active memtable and the read-only
\* map are empty and every key that was in a memtable is in a registered
\* SSTable; when flush_all returns an error, no memtable was cleared or
\* dropped.
C14_FlushAllForcesEveryMemtable ==
    [][/\ (ret'.op = "flush_all" /\ ret'.res.ok) =>
            /\ MemKeys(active_memtable') = {}
            /\ read_only_memtables' = <<>>
            /\ \A k \in MemtableKeys :
                   \E p \in DOMAIN sstables' :
                       /\ RegisteredIn(sstables', buckets', filters', key_range', p)
                       /\ \E i \in 1..Len(sstables'[p].entries) :
                              sstables'[p].entries[i].key = k
       /\ (ret'.op = "flush_all" /\ ~ret'.res.ok) =>
            /\ active_memtable' = active_memtable
            /\ read_only_memtables' = read_only_memtables]_vars

\* C14 witness: flush_all returned Ok after it flushed the active memtable
\* and at least one read-only memtable.
C14_Witness ==
    /\ ret.op = "flush_all"
    /\ ret.res.ok
    /\ ret.flushed >= 2
    /\ MemtablesEmpty

\* C15: a flush of an empty memtable is turned down with the error kind
\* EmptyFlush and changes neither the bucket map, nor the key-range index,
\* nor the Bloom filter list.
C15_EmptyFlushRejected ==
    [][(ret'.op = "flush" /\ MemKeys(ret'.table) = {}) =>
           /\ ret'.res = Err("EmptyFlush")
           /\ UNCHANGED <<buckets, key_range, filters>>]_vars

\* The part of C15 that holds: the flush is turned down and the bucket map,
\* the key-range index and the Bloom filter list are as before.
C15_EmptyFlushChangesNothing ==
    [][(ret'.op = "flush" /\ MemKeys(ret'.table) = {}) =>
           /\ ~ret'.res.ok
           /\ UNCHANGED <<buckets, key_range, filters>>]_vars

\* The read-only memtables sealed by the step: those whose id the map did
\* not hold before.
IsNewlySealed(j) ==
    \A i \in 1..Len(read_only_memtables) :
        read_only_memtables[i].id # read_only_memtables'[j].id

\* C18: a sealed memtable is never mutated, and the insert of the put or
\* delete that seals the active memtable goes to a new active memtable that
\* holds nothing else; the sealed table is the former active memtable with
\* its head marker.
C18_SealedMemtableNeverMutated ==
    [][crashes' = crashes =>
         /\ \A i \in 1..Len(read_only_memtables) :
                /\ read_only_memtables[i].table.read_only
                /\ \A j \in 1..Len(read_only_memtables') :
                       read_only_memtables'[j].id = read_only_memtables[i].id
                           => read_only_memtables'[j].table = read_only_memtables[i].table
         /\ \A i \in 1..Len(tasks) : \A j \in 1..Len(tasks') :
                tasks'[j].table_id = tasks[i].table_id
                    => tasks'[j].table = tasks[i].table
         /\ \A j \in 1..Len(read_only_memtables') :
                IsNewlySealed(j) =>
                    /\ read_only_memtables'[j].table.read_only
                    /\ MemKeys(read_only_memtables'[j].table)
                           = MemKeys(active_memtable) \cup {HEAD_ENTRY_KEY}
                    /\ \A k \in MemKeys(active_memtable) \ {HEAD_ENTRY_KEY} :
                           read_only_memtables'[j].table.entries[k]
                               = active_memtable.entries[k]
                    /\ ret'.op \in {"put", "delete"}
                    /\ MemKeys(active_memtable') = {ret'.key}
                    /\ active_memtable'.entries[ret'.key].val_offset = VlogEnd(val_log)
                    /\ active_memtable'.size = 1
                    /\ ~active_memtable'.read_only]_vars

\* C18 witness: a put or delete has sealed the active memtable; its entry
\* is alone in the new active memtable and the sealed table waits in the
\* read-only map.
C18_Witness ==
    /\ ret.op \in {"put", "delete"}
    /\ ret.res.ok
    /\ read_only_memtables # <<>>
    /\ read_only_memtables[Len(read_only_memtables)].id = next_id - 1
    /\ MemKeys(active_memtable) = {ret.key}
    /\ active_memtable.size = 1
    /\ ret.key \in MemKeys(read_only_memtables[Len(read_only_memtables)].table)

\* The entries of the memtables (the active one, the read-only map, the
\* tables held by flush tasks) and of the SSTables.
StoredEntries ==
    {active_memtable.entries[k] : k \in MemKeys(active_memtable)}
    \cup UNION {{read_only_memtables[i].table.entries[k] :
                     k \in MemKeys(read_only_memtables[i].table)} :
                i \in 1..Len(read_only_memtables)}
    \cup UNION {{tasks[i].table.entries[k] : k \in MemKeys(tasks[i].table)} :
                i \in 1..Len(tasks)}
    \cup UNION {{sstables[p].entries[i] : i \in 1..Len(sstables[p].entries)} :
                p \in DOMAIN sstables}

\* A value-log record starts at the entry's val_offset and has its key.
PointsAtOwnRecord(e) ==
    \E i \in 1..Len(val_log) :
        val_log[i].offset = e.val_offset /\ val_log[i].key = e.key

MemtableAnswerTime(k) ==
    IF k \in MemKeys(active_memtable)
    THEN active_memtable.entries[k].created_at
    ELSE ScanReadOnly(read_only_memtables, 1, k, NoHit).time

\* The created_at of the entries held for k by the read-only memtables and
\* by the SSTables on disk.
OtherSourceTimes(k) ==
    {read_only_memtables[i].table.entries[k].created_at :
         i \in {j \in 1..Len(read_only_memtables) :
                    k \in MemKeys(read_only_memtables[j].table)}}
    \cup UNION {{sstables[p].entries[i].created_at :
                     i \in {j \in 1..Len(sstables[p].entries) :
                                sstables[p].entries[j].key = k}} :
                p \in {q \in DOMAIN sstables : Registered(q)}}

\* C20: get resolves freshness by created_at only: the memtable entry it
\* answers from, in the active or a read-only memtable, never shadows an
\* entry with a greater created_at held by another source.
C20_MemtableNeverShadowsFresher ==
    engine = "open" =>
        \A k \in UserKeys :
            MemtableAnswerTime(k) > 0 =>
                \A t \in OtherSourceTimes(k) : t <= MemtableAnswerTime(k)

\* The part of C20 that holds: an entry of the active memtable is never
\* older than an entry held for its key by another source.
C20_ActiveNeverShadowsFresher ==
    engine = "open" =>
        \A k \in UserKeys \cap MemKeys(active_memtable) :
            \A t \in OtherSourceTimes(k) : t <= active_memtable.entries[k].created_at

\* The keys of an entry list.
EntryKeys(entries) == {entries[i].key : i \in 1..Len(entries)}

\* The list is in strictly ascending order of its full keys.
StrictlyAscending(entries) ==
    \A i \in 1..Len(entries) - 1 : KeyLess(entries[i].key, entries[i + 1].key)

\* A merge was called and has returned.
MergeReturned == call.fn \in {"merge_sstables", "merge_entries"}

\* C21: the two-way merge of two sorted, duplicate-free entry lists gives a
\* list in strictly ascending order of the full keys whose keys are exactly
\* those of the two inputs, each once; it does not fail.
C21_MergeIsSortedUnion ==
    MergeReturned =>
        /\ ~call.res.panic
        /\ StrictlyAscending(call.res.entries)
        /\ EntryKeys(call.res.entries)
               = EntryKeys(call.args[1]) \cup EntryKeys(call.args[2])

\* The entry an entry list holds for key k.
EntryOf(entries, k) == entries[CHOOSE i \in 1..Len(entries) : entries[i].key = k]

\* The keys both arguments of the merge hold.
CommonKeys == EntryKeys(call.args[1]) \cap EntryKeys(call.args[2])

\* C22: for a key held by both inputs the merge emits exactly one entry,
\* and when the created_at of the two entries differ, it is the entry with
\* the greater created_at.
C22_EqualKeysGreaterCreatedAtWins ==
    MergeReturned =>
        \A k \in CommonKeys :
            LET e1 == EntryOf(call.args[1], k)
                e2 == EntryOf(call.args[2], k)
            IN /\ Cardinality({i \in 1..Len(call.res.entries) :
                                   call.res.entries[i].key = k}) = 1
               /\ e1.created_at > e2.created_at => EntryOf(call.res.entries, k) = e1
               /\ e2.created_at > e1.created_at => EntryOf(call.res.entries, k) = e2

\* C23: when the two entries of a key have the same created_at and exactly
\* one of them is a tombstone, the merge emits the tombstone; whichever
\* entry a merge emits for a key, it is one of the input entries for that
\* key, tombstone mark included.
C23_TieGoesToTombstone ==
    MergeReturned =>
        /\ \A i \in 1..Len(call.res.entries) :
               \E n \in 1..2 : \E j \in 1..Len(call.args[n]) :
                   call.res.entries[i] = call.args[n][j]
        /\ \A k \in CommonKeys :
               LET e1 == EntryOf(call.args[1], k)
                   e2 == EntryOf(call.args[2], k)
               IN (e1.created_at = e2.created_at /\ e1.is_tombstone # e2.is_tombstone)
                      => /\ k \in EntryKeys(call.res.entries)
                         /\ EntryOf(call.res.entries, k).is_tombstone

\* The SSTable files a step has written.
NewSSTables == (DOMAIN sstables') \ (DOMAIN sstables)

\* C24: the hotness of the SSTable a cycle writes for a bucket is the sum
\* of the hotness of every SSTable of that bucket, the first included.
C24_OutputHotnessIsSumOfInputs ==
    [][ret'.op = "compaction" =>
           \A p \in NewSSTables :
               \E n \in 1..Len(BucketsToCompact(buckets)) :
                   LET bucket == buckets[BucketsToCompact(buckets)[n]]
                   IN /\ sstables'[p].entries
                             = MergeSSTablesInBucket(sstables, bucket).entries
                      /\ sstables'[p].hotness = SumHotness(sstables, bucket)]_vars

\* What holds instead of C24: the first SSTable of the bucket is left out
\* of the sum.
C24_OutputHotnessLeavesFirstOut ==
    [][ret'.op = "compaction" =>
           \A p \in NewSSTables :
               \E n \in 1..Len(BucketsToCompact(buckets)) :
                   LET bucket == buckets[BucketsToCompact(buckets)[n]]
                   IN /\ sstables'[p].entries
                             = MergeSSTablesInBucket(sstables, bucket).entries
                      /\ sstables'[p].hotness = SumHotness(sstables, Tail(bucket))]_vars

\* A filter of the list before the step is no longer in the list after it.
FilterRemoved ==
    \E i \in 1..Len(filters) : \A j \in 1..Len(filters') : filters'[j] # filters[i]

\* An SSTable file on disk before the step is no longer there after it.
SSTableDeleted == \E p \in DOMAIN sstables : p \notin DOMAIN sstables'

\* A cycle's merge step has returned after it counted its writes.
WritesCounted(r) == r.op = "compaction" /\ r.res.ok /\ "expected" \in DOMAIN r

\* C25: a compaction cycle retires its inputs only if every merged SSTable
\* was written: the step in which a write failed deletes no SSTable file,
\* removes no Bloom filter and ends the cycle, the clean-up is entered only
\* by a step that wrote all it expected, and nothing but the clean-up
\* deletes a file or removes a filter.
C25_InputsRetiredOnlyIfAllWritten ==
    [][/\ (WritesCounted(ret') /\ ret'.actual < ret'.expected) =>
              /\ ~SSTableDeleted
              /\ ~FilterRemoved
              /\ compaction'.pc = "idle"
       /\ (compaction.pc # "clean_up" /\ compaction'.pc = "clean_up") =>
              /\ WritesCounted(ret')
              /\ ret'.actual = ret'.expected
       /\ (SSTableDeleted \/ FilterRemoved) => compaction.pc = "clean_up"]_vars

\* C25 witness: the write of a merged SSTable has failed; the cycle is
\* over and the SSTables of the bucket are on disk with their filters.
C25_Witness ==
    /\ WritesCounted(ret)
    /\ ret.actual < ret.expected
    /\ compaction.pc = "idle"
    /\ \E i \in 1..Len(buckets) :
           /\ Len(buckets[i]) >= BUCKET_THRESHOLD
           /\ \A n \in 1..Len(buckets[i]) :
                  /\ buckets[i][n] \in DOMAIN sstables
                  /\ \E j \in 1..Len(filters) : filters[j].sst = buckets[i][n]

\* The clean-up step has ended with the error of a partial deletion.
PartialDeletion(r) == r.op = "compaction" /\ r.res = Err("BrokenPipe")

\* get(k) on the state after the step, no Bloom filter answering a false
\* positive.
GetExactAfter(k) ==
    GetIn(val_log', active_memtable', read_only_memtables', sstables', filters',
          key_range', k, {})

\* C26: when delete_sstables reports that not every input was deleted, the
\* Bloom filter list is as it was before the clean-up, and every key a get
\* found before the clean-up is found by a get after it, with the same
\* result.
C26_PartialDeletionKeepsFiltersAndReads ==
    [][PartialDeletion(ret') =>
           /\ filters' = filters
           /\ \A k \in UserKeys : GetExact(k).ok => GetExactAfter(k) = GetExact(k)]_vars

\* The part of C26 that holds: the Bloom filter list is as it was.
C26_PartialDeletionKeepsFilters ==
    [][PartialDeletion(ret') => filters' = filters]_vars

\* The step is the clean-up of a cycle that wrote every merged SSTable and
\* whose delete_sstables removed every input.
CleanUpAfterFullDeletion ==
    /\ compaction.pc = "clean_up"
    /\ compaction.to_remove # {}
    /\ ret'.op = "compaction"
    /\ ~PartialDeletion(ret')

\* The filters of the list that do not name a retired SSTable, in order.
FiltersOfLiveSSTables(fs, retired) == SelectSeq(fs, LAMBDA b : b.sst \notin retired)

\* C27: after a cycle whose outputs were all written and whose inputs were
\* all deleted, the Bloom filter list is the former list without the
\* filters of the retired SSTables: those of the new outputs and of the
\* untouched SSTables are still there; the cycle does not fail.
C27_CleanUpKeepsLiveFilters ==
    [][CleanUpAfterFullDeletion =>
           /\ ret'.res.ok
           /\ filters' = FiltersOfLiveSSTables(filters, compaction.to_remove)]_vars

\* What holds instead of C27: the list is left empty, and the cycle ends in
\* a panic when a filter of a retired SSTable was in the list.
C27_CleanUpEmptiesFilterList ==
    [][CleanUpAfterFullDeletion =>
           /\ filters' = <<>>
           /\ ret'.res.ok <=> (\A i \in 1..Len(filters) :
                                   filters[i].sst \notin compaction.to_remove)]_vars

\* The step belongs to a cycle that found no bucket to compact.
EmptyCycleStep ==
    /\ ret'.op = "compaction"
    /\ \/ compaction.pc = "idle" /\ BucketsToCompact(buckets) = <<>>
       \/ compaction.pc = "clean_up" /\ compaction.to_remove = {}

\* C28: a cycle run when no bucket reaches the threshold changes neither
\* the bucket map, nor the SSTable files, nor the Bloom filter list, and
\* does not fail.
C28_EmptyCycleIsNoOp ==
    [][EmptyCycleStep =>
           /\ ret'.res.ok
           /\ UNCHANGED <<buckets, sstables, filters>>]_vars

\* What holds instead of C28: the bucket map and the files are untouched
\* and the cycle returns Ok, but its clean-up empties the filter list.
C28_EmptyCycleEmptiesFilterList ==
    [][EmptyCycleStep =>
           /\ ret'.res.ok
           /\ UNCHANGED <<buckets, sstables>>
           /\ filters' = IF compaction.pc = "clean_up" THEN <<>> ELSE filters]_vars

\* The positions of the index entries whose key is smaller than k, not
\* greater than k, and greater than k.
IndexBelow(index, k) == {i \in 1..Len(index) : KeyLess(index[i].key, k)}
IndexUpTo(index, k) == {i \in 1..Len(index) : KeyLeq(index[i].key, k)}
IndexAbove(index, k) == {i \in 1..Len(index) : KeyLess(k, index[i].key)}

\* The greatest and the smallest position of a non-empty set of positions.
MaxPos(S) == CHOOSE i \in S : \A j \in S : j <= i
MinPos(S) == CHOOSE i \in S : \A j \in S : i <= j

DataEnd(index) ==
    IF index = <<>> THEN 0
    ELSE index[Len(index)].offset + DataEntrySize(index[Len(index)].key)

\* C30: get_offset_range(start, end) returns as start_offset the offset of
\* the greatest index key not greater than start (0, the start of the data,
\* when there is none) and as end_offset the offset of the first index key
\* greater than end, or the end of the data when there is none, so that
\* every entry with start <= key <= end starts in [start_offset,
\* end_offset).
C30_OffsetRangeCoversRange ==
    call.fn = "get_offset_range" =>
        LET index == call.args[1]
            start == call.args[2]
            end == call.args[3]
            up_to == IndexUpTo(index, start)
            above == IndexAbove(index, end)
        IN /\ call.res.start_offset =
                  IF up_to # {} THEN index[MaxPos(up_to)].offset ELSE 0
           /\ call.res.end_offset =
                  IF above # {} THEN index[MinPos(above)].offset ELSE DataEnd(index)
           /\ \A i \in 1..Len(index) :
                  (KeyLeq(start, index[i].key) /\ KeyLeq(index[i].key, end)) =>
                      /\ call.res.start_offset <= index[i].offset
                      /\ index[i].offset < call.res.end_offset

\* What holds of get_offset_range: start_offset is as C30 says; end_offset
\* is the offset of the first index key greater than end if there is one,
\* else the offset of the last index key greater than start, else 0.
C30_OffsetRangeAsComputed ==
    call.fn = "get_offset_range" =>
        LET index == call.args[1]
            start == call.args[2]
            end == call.args[3]
            up_to == IndexUpTo(index, start)
            above == IndexAbove(index, end)
            after_start == IndexAbove(index, start)
        IN /\ call.res.start_offset =
                  IF up_to # {} THEN index[MaxPos(up_to)].offset ELSE 0
           /\ call.res.end_offset =
                  IF above # {} THEN index[MinPos(above)].offset
                  ELSE IF after_start # {} THEN index[MaxPos(after_start)].offset
                  ELSE 0

\* The head marker a sealed memtable holds, as the sealing policy names it:
\* present, not a tombstone, its val_offset the greatest of the table.
HasHeadMarker(m) ==
    /\ HEAD_ENTRY_KEY \in MemKeys(m)
    /\ ~m.entries[HEAD_ENTRY_KEY].is_tombstone
    /\ m.entries[HEAD_ENTRY_KEY].val_offset = MemMaxOffset(m)

\* C31: every memtable in the read-only map, whether put, delete or
\* recovery sealed it, holds a head marker that is not a tombstone and whose
\* val_offset is the greatest val_offset of the table.
C31_SealedMemtableHasHeadMarker ==
    \A i \in 1..Len(read_only_memtables) :
        HasHeadMarker(read_only_memtables[i].table)

\* The read-only map, value-log head and flush tasks put leaves when it
\* seals the active memtable at the millisecond sealed_at.
PutSealAndRotate(sealed_at) ==
    LET sealed == [MemInsert(active_memtable,
                             PutHeadEntry(active_memtable, sealed_at))
                   EXCEPT !.read_only = TRUE]
        ro == Append(read_only_memtables, [id |-> next_id, table |-> sealed])
    IN [read_only_memtables |-> ro,
        vlog_head |-> MemMaxOffset(active_memtable),
        tasks |-> IF Len(ro) >= MAX_BUFFER_WRITE_NUMBER
                  THEN tasks \o SpawnFlushTasks(ro) ELSE tasks]

\* A delete that found the active memtable full.
DeleteSeals ==
    /\ ret'.op = "delete"
    /\ ret'.res.ok
    /\ MemIsFull(active_memtable)
    /\ Len(read_only_memtables') = Len(read_only_memtables) + 1

\* C32: a delete that finds the active memtable full seals and rotates as
\* put does: the same sealed memtable enters the read-only map, the value-log
\* head is set, the read-only memtables are handed to the flusher at the
\* buffered count, and only the inserted entry differs.
C32_DeleteSealsAsPut ==
    [][DeleteSeals =>
          /\ read_only_memtables' = PutSealAndRotate(now').read_only_memtables
          /\ vlog_head' = PutSealAndRotate(now').vlog_head
          /\ tasks' = PutSealAndRotate(now').tasks
          /\ MemKeys(active_memtable') = {ret'.key}]_vars

\* The flush task at position i has completed with Ok in this step.
FlushCompletes(i) ==
    /\ i \in 1..Len(tasks)
    /\ tasks[i].pc = "remove"
    /\ tasks' = RemoveAt(tasks, i)
    /\ ret'.op = "flush_task"
    /\ ret'.res.ok

\* The ids of the memtables in the engine's read-only map.
ReadOnlyIds(ro) == {ro[j].id : j \in 1..Len(ro)}

\* C33: when a background flush of a sealed memtable completes with Ok, the
\* memtable is not in the read-only map the engine's get and put consult,
\* also when it was sealed after flush_all_memtables ran.
C33_FlushedMemtableLeavesReadOnlyMap ==
    [][\A i \in 1..MaxLateTasks :
           FlushCompletes(i) =>
               tasks[i].table_id \notin ReadOnlyIds(read_only_memtables')]_vars

\* The same for an engine whose flusher still holds the engine's map.
C33_FlushedMemtableLeavesSharedMap ==
    [][\A i \in 1..MaxLateTasks :
           (FlushCompletes(i) /\ flusher_shares_map) =>
               tasks[i].table_id \notin ReadOnlyIds(read_only_memtables')]_vars

\* A background flush has failed in this step.
FlushFailed ==
    /\ ret'.op = "flush_task"
    /\ ~ret'.res.ok
    /\ Len(tasks') < Len(tasks)

\* A put has sealed the active memtable in this step, with the buffered
\* count reached.
PutSealsAtCount ==
    /\ ret'.op = "put"
    /\ Len(read_only_memtables') = Len(read_only_memtables) + 1
    /\ Len(read_only_memtables') >= MAX_BUFFER_WRITE_NUMBER

\* The flush tasks started in this step hold the table at position j of
\* the read-only map.
HandedToFlusher(j) ==
    \E i \in Len(tasks) + 1..Len(tasks') :
        /\ tasks'[i].table_id = read_only_memtables'[j].id
        /\ tasks'[i].table = read_only_memtables'[j].table
        /\ tasks'[i].pc = "flush"

FlushRegistered(m) ==
    \E p \in DOMAIN sstables :
        /\ sstables[p] = TableOfMemtable(m, 1)
        /\ Registered(p)

C36_MemtableWrittenOnce ==
    \A p \in DOMAIN sstables, q \in DOMAIN sstables :
        (p # q /\ Registered(p) /\ Registered(q)) =>
            sstables[p].entries # sstables[q].entries

\* The ids a sealed memtable may carry.
SealedIds == 1..MaxLog

\* C37: with fair scheduling of the flush tasks and no I/O failure, every
\* memtable sealed by put or by delete is in the end removed from the
\* read-only map (which only the task that flushed it does).
C37_SealedEventuallyFlushed ==
    \A id \in SealedIds :
        (id \in ReadOnlyIds(read_only_memtables))
            ~> (id \notin ReadOnlyIds(read_only_memtables))

\* C38: the lock acquisitions of the running flush tasks and of get, seek
\* and put never deadlock: every operation that has started runs to its
\* end.
C38_EveryOperationCompletes ==
    \A t \in Threads : Running(t) ~> ~Running(t)

\* No thread inside an operation is left without a thread that can step.
C38_NoDeadlock ==
    (\E t \in Threads : Running(t)) =>
        \E t \in Threads :
            /\ Running(t)
            /\ threads[t].waiting =>
                   /\ Head(rwlocks[Instr(t).lock].queue).thread = t
                   /\ rwlocks[Instr(t).lock].writer = "none"
                   /\ Instr(t).mode = "write" =>
                          \A u \in Threads : rwlocks[Instr(t).lock].readers[u] = 0

\* The caller waits in get for the key range while a flush task holds it
\* for writing, with the other flush task waiting for the bucket map.
C38_Witness ==
    /\ threads["caller"].prog = GetProgram
    /\ threads["caller"].waiting
    /\ \E f \in FlushThreads :
           /\ rwlocks["key_range"].writer = f
           /\ rwlocks["bucket_map"].writer = f
           /\ \E g \in FlushThreads \ {f} :
                  /\ threads[g].waiting
                  /\ Instr(g).lock = "bucket_map"
    /\ Instr("caller").lock = "key_range"

\* C39: next() never reads prefetch_entries at an index that is not below
\* its length, for every key list, lists with tombstones or with entries the
\* value log does not hold included.
C39_NextNeverIndexesPastEnd ==
    /\ ~iter_out.panicked
    /\ (ret.op = "next" /\ ret.res.kind = "entry") =>
           range_iterator.current <= Len(range_iterator.prefetch_entries)

\* C40: with allow_prefetch not set, the next() calls still yield the
\* entries of the key list that are not tombstones, in key order: the empty
\* stream comes only once all of them were yielded.
C40_NextWithoutPrefetchYieldsEntries ==
    (~range_iterator.allow_prefetch /\ iter_out.ended) =>
        iter_out.yielded = LiveEntries(val_log, range_iterator.keys)
====
